---- MODULE Spec2Model ----
(***************************************************************************)
(* Verification model of the cubing extension of MiniSat (src/cs).         *)
(*                                                                         *)
(* The leaf data structures are modelled as values with one operator per   *)
(* method:                                                                 *)
(*   Bimap      (src/cs/Bimap.h)      record [next_free_index, ptt, ttp,    *)
(*                                    ttp_next]                            *)
(*   CubeQueue  (src/cs/CubeQueue.cc) record [budget, sumScore, numSeen,   *)
(*                                    scorewise, implicants]               *)
(*   CubeIndex  (src/cs/CubeIndex.h)  trie, a function from node paths to  *)
(*                                    the node's marks                     *)
(* C++ vectors are 0-based; a vector v is the sequence with v[i] at        *)
(* position i + 1.  An unordered_map / map is a function whose DOMAIN is   *)
(* its key set.                                                            *)
(***************************************************************************)
EXTENDS Integers, Sequences, FiniteSets, TLC

VARIABLES
    bi,          \* the Bimap object
    bmLast,      \* history: the last Bimap call; for drop, the slot and its id
    bmIssued,    \* history: the ids returned by add, in call order
    bmPending,   \* history: the moves (target slot j, moved id p) that will_move
                 \* was called with since the last flip_buffer
    bmCommitted, \* history: the moves committed by a flip_buffer just made
    cq,          \* the CubeQueue object
    cqLast,      \* history: the last push or pop of the CubeQueue
    cqHist,      \* history: the number of push calls, and the count and score
                 \* sum of those that inserted a cube
    cqOrder,     \* history: the cubes present, in order of insertion
    ci,          \* the CubeIndex object (root node and its descendants)
    ciPushed,    \* history: the cubes pushed and not popped since
    ciLast,      \* history: the last CubeIndex call, its argument, and whether
                 \* it follows a push of the same cube
    ciBefore,    \* history: the index as it was before the last push, kept over
                 \* a pop of the same cube that follows at once
    cubes,       \* two Cube objects, cubes[1] and cubes[2]
    cuSet,       \* history: per cube, the literals pushed and not popped since
    cuLast,      \* history: the last Cube call, its object and its argument
    cuBefore,    \* history: the cube as it was before the last push, kept over
                 \* a pop of the same literal that follows at once
    sv,          \* the CubifyingSolver object
    pc,          \* where interleavedSolve stands
    fr,          \* the locals of interleavedSolveInternal and of the current
                 \* interleavedSolveStep
    orig,        \* history: the clauses of the problem as they were given
    svLast       \* history: what the last step of interleavedSolve observed

vars == <<bi, bmLast, bmIssued, bmPending, bmCommitted,
          cq, cqLast, cqHist, cqOrder, ci, ciPushed, ciLast, ciBefore,
          cubes, cuSet, cuLast, cuBefore, sv, pc, fr, orig, svLast>>

bmVars == <<bi, bmLast, bmIssued, bmPending, bmCommitted>>
cqVars == <<cq, cqLast, cqHist, cqOrder>>
ciVars == <<ci, ciPushed, ciLast, ciBefore>>
cuVars == <<cubes, cuSet, cuLast, cuBefore>>
svVars == <<sv, pc, fr, orig, svLast>>

\* What the calls on one object leave alone: the other objects.
exceptBimap     == <<cqVars, ciVars, cuVars, svVars>>
exceptCubeQueue == <<bmVars, ciVars, cuVars, svVars>>
exceptCubeIndex == <<bmVars, cqVars, cuVars, svVars>>
exceptCube      == <<bmVars, cqVars, ciVars, svVars>>
exceptSolver    == <<bmVars, cqVars, ciVars, cuVars>>

(***************************************************************************)
(* Bounds of the model.                                                    *)
(***************************************************************************)
MaxSlot  == 2    \* transient slots 0 .. MaxSlot - 1 are passed to the Bimap
MaxIds   == 3    \* at most MaxIds calls of add
MaxMoves == 2    \* at most MaxMoves different moves per batch of will_move calls
MaxSlotBasic == 3  \* the slots 0 .. MaxSlotBasic - 1 of the runs of add, drop
                   \* and swap alone

Slots == 0 .. (MaxSlot - 1)
SlotsBasic == 0 .. (MaxSlotBasic - 1)

\* The largest element of a non-empty set of integers.
SetMax(S) == CHOOSE x \in S : \A y \in S : y <= x

\* A function with one key set (std::unordered_map::operator[] assignment).
MapPut(f, k, v) == [x \in (DOMAIN f) \cup {k} |-> IF x = k THEN v ELSE f[x]]

\* A function without one key (std::unordered_map::erase).
MapErase(f, k) == [x \in (DOMAIN f) \ {k} |-> f[x]]

\* The empty map.
EmptyMap == [x \in {} |-> 0]

\* std::vector::resize(n, fill) when n is larger than the size.
Resize(v, n, fill) == [k \in 1 .. n |-> IF k <= Len(v) THEN v[k] ELSE fill]

\* v with v[i] = x, i a 0-based position inside v.
VecSet(v, i, x) == [v EXCEPT ![i + 1] = x]

\* The element of a set of one element.  The({e(v) : v \in {d}}) is e with
\* v standing for the value of d, which is computed once.
The(S) == CHOOSE v \in S : TRUE

(***************************************************************************)
(* Bimap (src/cs/Bimap.h).                                                 *)
(***************************************************************************)
Bimap_new ==
    [next_free_index |-> 0, ptt |-> EmptyMap, ttp |-> <<>>, ttp_next |-> <<>>]

\* Bimap::fw: the transient index of persistent index j, or -1.
Bimap_fw(b, j) == IF j \notin DOMAIN b.ptt THEN -1 ELSE b.ptt[j]

\* Bimap::bw: the persistent index of transient index i, or -1.  The
\* comparison ttp.size() <= i is unsigned, so a negative i reads as large.
Bimap_bw(b, i) == IF i < 0 \/ Len(b.ttp) <= i THEN -1 ELSE b.ttp[i + 1]

\* The assertion of Bimap::add: slot i is free.
Bimap_add_pre(b, i) == IF Len(b.ttp) <= i THEN TRUE ELSE b.ttp[i + 1] = -1

\* A Bimap::add that hands out the smallest id not in use.
Bimap_add_reuse(b, i) ==
    LET j    == CHOOSE x \in 0 .. b.next_free_index :
                    /\ x \notin DOMAIN b.ptt
                    /\ \A y \in 0 .. (x - 1) : y \in DOMAIN b.ptt
        ttp1 == IF Len(b.ttp) <= i THEN Resize(b.ttp, i + 1, -1) ELSE b.ttp
    IN  [bi  |-> [b EXCEPT !.next_free_index = IF j = @ THEN @ + 1 ELSE @,
                           !.ptt = MapPut(b.ptt, j, i),
                           !.ttp = VecSet(ttp1, i, j)],
         ret |-> j]

\* Bimap::add: record a clause at transient index i; returns its new id.
Bimap_add(b, i) ==
    LET j    == b.next_free_index
        ttp1 == IF Len(b.ttp) <= i THEN Resize(b.ttp, i + 1, -1) ELSE b.ttp
    IN  [bi  |-> [b EXCEPT !.next_free_index = @ + 1,
                           !.ptt = MapPut(b.ptt, j, i),
                           !.ttp = VecSet(ttp1, i, j)],
         ret |-> j]

\* The assertions of Bimap::drop: slot i is live.
Bimap_drop_pre(b, i) == Len(b.ttp) > i /\ b.ttp[i + 1] >= 0

\* A Bimap::drop that forgets to erase the id from ptt.
Bimap_drop_keep(b, i) == [b EXCEPT !.ttp = VecSet(b.ttp, i, -1)]

\* Bimap::drop: drop the clause whose transient index is i.
Bimap_drop(b, i) ==
    [b EXCEPT !.ptt = MapErase(b.ptt, b.ttp[i + 1]),
              !.ttp = VecSet(b.ttp, i, -1)]

\* The assertions of Bimap::swap: slots i and j are live.
Bimap_swap_pre(b, i, j) ==
    /\ Len(b.ttp) > i /\ Len(b.ttp) > j
    /\ b.ttp[i + 1] >= 0 /\ b.ttp[j + 1] >= 0

\* Bimap::swap: swap transient index i with transient index j.
Bimap_swap(b, i, j) ==
    LET ir == b.ttp[i + 1]
        jr == b.ttp[j + 1]
    IN  [b EXCEPT !.ptt = MapPut(MapPut(b.ptt, ir, j), jr, i),
                  !.ttp = VecSet(VecSet(b.ttp, i, jr), j, ir)]

\* The assertions of Bimap::will_move: slot i is live.
Bimap_will_move_pre(b, i) == Len(b.ttp) > i /\ b.ttp[i + 1] >= 0

\* A Bimap::will_move that writes the live buffer instead of the pending one.
Bimap_will_move_live(b, i, j) ==
    LET t1 == IF Len(b.ttp) <= j THEN Resize(b.ttp, j + 1, -1) ELSE b.ttp
    IN  [b EXCEPT !.ttp = VecSet(t1, j, b.ttp[i + 1])]

\* Bimap::will_move: the clause at slot i gets slot j at the next flip.
Bimap_will_move(b, i, j) ==
    LET n1 == IF Len(b.ttp_next) <= j
              THEN Resize(b.ttp_next, j + 1, -1) ELSE b.ttp_next
    IN  [b EXCEPT !.ttp_next = VecSet(n1, j, b.ttp[i + 1])]

\* The loop of Bimap::flip_buffer from position i on: ptt[ttp[i]] = i.
RECURSIVE FlipFill(_, _, _)
FlipFill(ttp, i, ptt) ==
    IF i >= Len(ttp) THEN ptt
    ELSE FlipFill(ttp, i + 1, MapPut(ptt, ttp[i + 1], i))

\* Bimap::flip_buffer: commit the pending buffer and rebuild ptt.
Bimap_flip_buffer(b) ==
    [b EXCEPT !.ttp = b.ttp_next,
              !.ttp_next = <<>>,
              !.ptt = FlipFill(b.ttp_next, 0, EmptyMap)]

(***************************************************************************)
(* Bimap actions: one per public method, called with arguments that pass   *)
(* the method's assertions.                                                *)
(***************************************************************************)
NoCall == [op |-> "none", a |-> -1, ret |-> -1]

BimapAdd(i) ==
    /\ Len(bmIssued) < MaxIds
    /\ Bimap_add_pre(bi, i)
    /\ LET r == Bimap_add(bi, i)
       IN  /\ bi' = r.bi
           /\ bmLast' = [NoCall EXCEPT !.op = "add"]
           /\ bmIssued' = Append(bmIssued, r.ret)
    /\ bmCommitted' = {}
    /\ UNCHANGED bmPending
    /\ UNCHANGED exceptBimap

BimapDrop(i) ==
    /\ Bimap_drop_pre(bi, i)
    /\ bi' = Bimap_drop(bi, i)
    /\ bmLast' = [op |-> "drop", a |-> i, ret |-> bi.ttp[i + 1]]
    /\ bmCommitted' = {}
    /\ UNCHANGED <<bmIssued, bmPending>>
    /\ UNCHANGED exceptBimap

BimapSwap(i, j) ==
    /\ Bimap_swap_pre(bi, i, j)
    /\ bi' = Bimap_swap(bi, i, j)
    /\ bmLast' = [NoCall EXCEPT !.op = "swap"]
    /\ bmCommitted' = {}
    /\ UNCHANGED <<bmIssued, bmPending>>
    /\ UNCHANGED exceptBimap

BimapWillMove(i, j) ==
    /\ Cardinality(bmPending) < MaxMoves
    /\ Bimap_will_move_pre(bi, i)
    /\ bi' = Bimap_will_move(bi, i, j)
    /\ bmLast' = [NoCall EXCEPT !.op = "will_move"]
    /\ bmPending' = bmPending \cup {[j |-> j, p |-> bi.ttp[i + 1]]}
    /\ bmCommitted' = {}
    /\ UNCHANGED bmIssued
    /\ UNCHANGED exceptBimap

BimapFlipBuffer ==
    /\ bi' = Bimap_flip_buffer(bi)
    /\ bmLast' = [NoCall EXCEPT !.op = "flip_buffer"]
    /\ bmCommitted' = bmPending
    /\ bmPending' = {}
    /\ UNCHANGED bmIssued
    /\ UNCHANGED exceptBimap

(***************************************************************************)
(* CubeQueue (src/cs/CubeQueue.cc).  A cube is the ascending sequence of   *)
(* its literal encodings; a score is a double, drawn here from small       *)
(* integers, which doubles add exactly.                                    *)
(***************************************************************************)
MaxBudget   == 3   \* budgets 2 .. MaxBudget
MaxCqCube   == 3   \* cubes {L0}, {L1}, ... pushed to the queue
MaxScore    == 2   \* scores 1 .. MaxScore
MaxPid      == 2   \* parent ids 0 .. MaxPid - 1
MaxPushes   == 3   \* at most MaxPushes calls of push
MaxRnd      == 2   \* peekBest is called with r in 0 .. MaxRnd

\* The budgets the queue is constructed with.  With a budget below 2 the
\* test (implicants.size() + 1) >= budget sends the first push, on an empty
\* queue, into the eviction branch; those budgets are left out here.
Budgets == 2 .. MaxBudget
CqCubes == {<<l>> : l \in 0 .. (MaxCqCube - 1)}
Scores  == 1 .. MaxScore
Pids    == 0 .. (MaxPid - 1)
Rnds    == 0 .. MaxRnd

\* The empty cube: the value of a default-constructed Cube.
NoCube == <<>>

Range(v) == {v[k] : k \in 1 .. Len(v)}

\* The sum of a sequence of integers.
RECURSIVE SeqSum(_)
SeqSum(v) == IF v = <<>> THEN 0 ELSE v[1] + SeqSum(Tail(v))

\* v without its element at (1-based) position k: std::vector::erase(it).
EraseAt(v, k) == [n \in 1 .. (Len(v) - 1) |-> IF n < k THEN v[n] ELSE v[n + 1]]

\* v without the first occurrence of x: erase(std::find(begin, end, x)).
EraseFirst(v, x) ==
    EraseAt(v, CHOOSE k \in 1 .. Len(v) : v[k] = x /\ \A n \in 1 .. (k - 1) : v[n] # x)

\* The smallest element of a non-empty set of integers.
SetMin(S) == CHOOSE x \in S : \A y \in S : x <= y

\* CubeQueue::CubeQueue(budget).
CubeQueue_new(budget) ==
    [budget |-> budget, sumScore |-> 0, numSeen |-> 0,
     scorewise |-> EmptyMap, implicants |-> EmptyMap]

\* CubeQueue::contains.
CubeQueue_contains(q, cube) == cube \in DOMAIN q.implicants

\* CubeQueue::size and CubeQueue::empty.
CubeQueue_size(q) == Cardinality(DOMAIN q.implicants)
CubeQueue_empty(q) == CubeQueue_size(q) = 0

\* CubeQueue::bestScore.
CubeQueue_bestScore(q) ==
    IF CubeQueue_empty(q) THEN 0 ELSE SetMax(DOMAIN q.scorewise)

\* CubeQueue::peekWorst: the front of the first (lowest-score) bucket.
CubeQueue_peekWorst(q) == q.scorewise[SetMin(DOMAIN q.scorewise)][1]

\* A CubeQueue::peekBest that reads the first bucket instead of the last.
CubeQueue_peekBest_first(q, r) ==
    LET vec == q.scorewise[SetMin(DOMAIN q.scorewise)]
    IN  IF Len(vec) = 1 THEN vec[1] ELSE vec[(r % Len(vec)) + 1]

\* CubeQueue::peekBest: element r % size of the last (highest-score) bucket.
CubeQueue_peekBest(q, r) ==
    LET vec == q.scorewise[SetMax(DOMAIN q.scorewise)]
    IN  IF Len(vec) = 1 THEN vec[1] ELSE vec[(r % Len(vec)) + 1]

\* A CubeQueue::pop that leaves the cube in a bucket shared with others.
CubeQueue_pop_stale(q, cube) ==
    LET score == q.implicants[cube][1]
        vec   == q.scorewise[score]
    IN  [q EXCEPT !.scorewise  = IF Len(vec) = 1 THEN MapErase(@, score) ELSE @,
                  !.implicants = MapErase(@, cube)]

\* CubeQueue::pop: remove the cube from its bucket and from the primary map.
CubeQueue_pop(q, cube) ==
    LET score == q.implicants[cube][1]
        vec   == q.scorewise[score]
    IN  [q EXCEPT !.scorewise  = IF Len(vec) = 1 THEN MapErase(@, score)
                                 ELSE MapPut(@, score, EraseFirst(vec, cube)),
                  !.implicants = MapErase(@, cube)]

\* CubeQueue::addParentInd: add parent id i to the cube unless it is there.
CubeQueue_addParentInd(q, cube, i) ==
    LET v == q.implicants[cube][2]
    IN  IF \E k \in 1 .. Len(v) : v[k] = i THEN q
        ELSE [q EXCEPT !.implicants[cube] = <<@[1], Append(v, i)>>]

\* CubeQueue::getParentInds.
CubeQueue_getParentInds(q, cube) == q.implicants[cube][2]

\* The eviction test of CubeQueue::push.
CubeQueue_evicts(q) == (CubeQueue_size(q) + 1) >= q.budget

\* The insertion of CubeQueue::push, after the eviction.
CubeQueue_insert(q, cube, score, i) ==
    [q EXCEPT !.implicants = MapPut(@, cube, <<score, <<i>>>>),
              !.scorewise  = MapPut(@, score,
                                 IF score \in DOMAIN @ THEN Append(@[score], cube)
                                 ELSE <<cube>>),
              !.sumScore   = @ + score,
              !.numSeen    = @ + 1]

\* A CubeQueue::push that keeps the mean over the cubes present: an evicted
\* cube is taken out of sumScore and numSeen.
CubeQueue_push_present_mean(q, cube, score, i) ==
    IF ~CubeQueue_contains(q, cube)
    THEN IF CubeQueue_evicts(q)
         THEN LET back == CubeQueue_peekWorst(q)
                  q1   == CubeQueue_pop(q, back)
              IN  CubeQueue_insert(
                      [q1 EXCEPT !.sumScore = @ - q.implicants[back][1],
                                 !.numSeen  = @ - 1], cube, score, i)
         ELSE CubeQueue_insert(q, cube, score, i)
    ELSE CubeQueue_addParentInd(q, cube, i)

\* A CubeQueue::push that refreshes the score of a cube already present.
CubeQueue_push_rescore(q, cube, score, i) ==
    IF ~CubeQueue_contains(q, cube)
    THEN CubeQueue_insert(
             IF CubeQueue_evicts(q) THEN CubeQueue_pop(q, CubeQueue_peekWorst(q))
             ELSE q, cube, score, i)
    ELSE LET q1 == CubeQueue_addParentInd(q, cube, i)
             ps == q1.implicants[cube][2]
             q2 == CubeQueue_pop(q1, cube)
         IN  [q2 EXCEPT !.implicants = MapPut(@, cube, <<score, ps>>),
                        !.scorewise  = MapPut(@, score,
                                 IF score \in DOMAIN @ THEN Append(@[score], cube)
                                 ELSE <<cube>>)]

\* CubeQueue::push: register a cube with the given score and parent id.
CubeQueue_push(q, cube, score, i) ==
    IF ~CubeQueue_contains(q, cube)
    THEN CubeQueue_insert(
             IF CubeQueue_evicts(q) THEN CubeQueue_pop(q, CubeQueue_peekWorst(q))
             ELSE q, cube, score, i)
    ELSE CubeQueue_addParentInd(q, cube, i)

(***************************************************************************)
(* CubeQueue actions.  push is called with any cube; pop, as its assertion *)
(* requires, with a cube of the queue.  peekBest, peekWorst, bestScore and *)
(* the other const methods are the operators above, applied to cq.         *)
(***************************************************************************)
NoCqCall ==
    [op |-> "none", cube |-> NoCube, pid |-> -1, present |-> FALSE,
     sizeBefore |-> 0, evicted |-> NoCube]

\* The queues CubeQueue::push may leave.  When the eviction branch is taken
\* on an empty queue, peekWorst dereferences scorewise.begin() of an empty
\* map and pop is handed what it read: the call may stop there, or go on and
\* insert the cube.
CubeQueue_pushOutcomes(q, cube, score, i) ==
    IF ~CubeQueue_contains(q, cube) /\ CubeQueue_evicts(q) /\ CubeQueue_empty(q)
    THEN {q, CubeQueue_insert(q, cube, score, i)}
    ELSE {CubeQueue_push(q, cube, score, i)}

CqPush(cube, score, pid) ==
    LET present == CubeQueue_contains(cq, cube)
        evicted == IF ~present /\ CubeQueue_evicts(cq) /\ ~CubeQueue_empty(cq)
                   THEN CubeQueue_peekWorst(cq) ELSE NoCube
    IN  /\ cqHist.calls < MaxPushes
        /\ cq' \in CubeQueue_pushOutcomes(cq, cube, score, pid)
        /\ cqLast' = [op |-> "push", cube |-> cube, pid |-> pid,
                      present |-> present, sizeBefore |-> CubeQueue_size(cq),
                      evicted |-> evicted]
        /\ cqHist' = IF present THEN [cqHist EXCEPT !.calls = @ + 1]
                     ELSE [calls |-> cqHist.calls + 1, n |-> cqHist.n + 1,
                           sum |-> cqHist.sum + score]
        /\ cqOrder' = IF present THEN cqOrder
                      ELSE Append(SelectSeq(cqOrder, LAMBDA c : c # evicted), cube)
        /\ UNCHANGED exceptCubeQueue

CqPop(cube) ==
    /\ CubeQueue_contains(cq, cube)
    /\ cq' = CubeQueue_pop(cq, cube)
    /\ cqLast' = [NoCqCall EXCEPT !.op = "pop", !.cube = cube,
                      !.sizeBefore = CubeQueue_size(cq)]
    /\ cqOrder' = SelectSeq(cqOrder, LAMBDA c : c # cube)
    /\ UNCHANGED cqHist
    /\ UNCHANGED exceptCubeQueue

(***************************************************************************)
(* CubeIndex (src/cs/CubeIndex.h).  The trie is the function from the path *)
(* of each existing node (the literals on the way from the root) to the    *)
(* marks of that node; the children of the node at path p are the nodes at *)
(* the paths Append(p, x).  The root, at path << >>, always exists.        *)
(***************************************************************************)
MaxCiLit  == 3   \* literals 0 .. MaxCiLit - 1 occur in the indexed cubes
MaxCiSize == 3   \* at most MaxCiSize cubes are in the index at a time

CiLits == 0 .. (MaxCiLit - 1)

\* The cube holding the literals of S: ascending, as Cube::push keeps it.
RECURSIVE CubeOf(_)
CubeOf(S) == IF S = {} THEN <<>> ELSE <<SetMin(S)>> \o CubeOf(S \ {SetMin(S)})

\* The non-empty cubes over CiLits.
CiCubes == {CubeOf(S) : S \in (SUBSET CiLits) \ {{}}}

\* CubeIndex::CubeIndex(): a node without marks and without children.
CubeIndex_new == [p \in {<<>>} |-> {}]

\* (*children)[x] at the node at path: the child is created when missing.
CubeIndex_child(t, path, x) ==
    IF Append(path, x) \in DOMAIN t THEN t ELSE MapPut(t, Append(path, x), {})

\* A CubeIndex::push that marks every node on the way down.
RECURSIVE CubeIndex_push_prefixes(_, _, _)
CubeIndex_push_prefixes(t, cube, depth) ==
    LET x    == cube[depth + 1]
        path == SubSeq(cube, 1, depth)
        t1   == [t EXCEPT ![path] = @ \cup {x}]
    IN  IF Len(cube) = depth + 1 THEN t1
        ELSE CubeIndex_push_prefixes(CubeIndex_child(t1, path, x), cube, depth + 1)

\* CubeIndex::push, at the node depth literals down the cube's path.
RECURSIVE CubeIndex_push(_, _, _)
CubeIndex_push(t, cube, depth) ==
    LET x    == cube[depth + 1]
        path == SubSeq(cube, 1, depth)
    IN  IF Len(cube) = depth + 1
        THEN [t EXCEPT ![path] = @ \cup {x}]
        ELSE CubeIndex_push(CubeIndex_child(t, path, x), cube, depth + 1)

\* A CubeIndex::pop that clears the marks of the node instead of erasing x.
RECURSIVE CubeIndex_pop_clear(_, _, _)
CubeIndex_pop_clear(t, cube, depth) ==
    LET x    == cube[depth + 1]
        path == SubSeq(cube, 1, depth)
    IN  IF Len(cube) = depth + 1
        THEN [t EXCEPT ![path] = {}]
        ELSE CubeIndex_pop_clear(CubeIndex_child(t, path, x), cube, depth + 1)

\* CubeIndex::pop, at the node depth literals down the cube's path.
RECURSIVE CubeIndex_pop(_, _, _)
CubeIndex_pop(t, cube, depth) ==
    LET x    == cube[depth + 1]
        path == SubSeq(cube, 1, depth)
    IN  IF Len(cube) = depth + 1
        THEN [t EXCEPT ![path] = @ \ {x}]
        ELSE CubeIndex_pop(CubeIndex_child(t, path, x), cube, depth + 1)

\* CubeIndex::contains, at the node depth literals down the cube's path.
RECURSIVE CubeIndex_contains(_, _, _)
CubeIndex_contains(t, cube, depth) ==
    LET x    == cube[depth + 1]
        path == SubSeq(cube, 1, depth)
    IN  IF Len(cube) = depth + 1
        THEN x \in t[path]
        ELSE IF Append(path, x) \notin DOMAIN t THEN FALSE
             ELSE CubeIndex_contains(t, cube, depth + 1)

(***************************************************************************)
(* CubeIndex actions: push and pop of a non-empty cube, as the assertion   *)
(* depth < cube.size() requires.                                           *)
(***************************************************************************)
CiPush(cube) ==
    /\ Cardinality(ciPushed \cup {cube}) <= MaxCiSize
    /\ ci' = CubeIndex_push(ci, cube, 0)
    /\ ciPushed' = ciPushed \cup {cube}
    /\ ciLast' = [op |-> "push", cube |-> cube,
                  rep |-> (ciLast.op = "push" /\ ciLast.cube = cube)]
    /\ ciBefore' = ci
    /\ UNCHANGED exceptCubeIndex

CiPop(cube) ==
    /\ ci' = CubeIndex_pop(ci, cube, 0)
    /\ ciPushed' = ciPushed \ {cube}
    /\ ciLast' = [op |-> "pop", cube |-> cube,
                  rep |-> (ciLast.op = "push" /\ ciLast.cube = cube)]
    /\ ciBefore' = IF ciLast.op = "push" /\ ciLast.cube = cube
                   THEN ciBefore ELSE CubeIndex_new
    /\ UNCHANGED exceptCubeIndex

(***************************************************************************)
(* Cube (src/cs/Cube.h).  A Cube is its vector of literals; a literal is   *)
(* its integer encoding x (2 * var + sign), which Lit's operator< compares.*)
(***************************************************************************)
MaxCuLit == 3   \* literals 0 .. MaxCuLit - 1 are pushed to and popped from cubes

CuLits == 0 .. (MaxCuLit - 1)

\* Cube::Cube(): no literal.
Cube_new == <<>>

\* Cube::size.
Cube_size(c) == Len(c)

\* Cube::clear.
Cube_clear(c) == <<>>

\* Cube::contains.
Cube_contains(c, L) == \E k \in 1 .. Len(c) : c[k] = L

\* The loop of Cube::push from position i down: swap while out of order.
RECURSIVE BubbleDown(_, _)
BubbleDown(v, i) ==
    IF i > 0
    THEN IF v[i + 1] < v[i]
         THEN BubbleDown([v EXCEPT ![i] = v[i + 1], ![i + 1] = v[i]], i - 1)
         ELSE v
    ELSE v

\* A Cube::push that appends without the bubble insert.
Cube_push_back(c, L) == IF Cube_contains(c, L) THEN c ELSE Append(c, L)

\* Cube::push: nothing if L is contained, else a bubble insert.
Cube_push(c, L) ==
    IF Cube_contains(c, L) THEN c ELSE BubbleDown(Append(c, L), Len(c))

\* The inner loop of Cube::pop from position i on: shift down by one.
RECURSIVE ShiftDown(_, _)
ShiftDown(v, i) ==
    IF i < Len(v) - 1 THEN ShiftDown([v EXCEPT ![i + 1] = v[i + 2]], i + 1) ELSE v

\* The outer loop of Cube::pop from position i on.
RECURSIVE PopFrom(_, _, _)
PopFrom(v, L, i) ==
    IF i < Len(v)
    THEN IF v[i + 1] = L
         THEN SubSeq(ShiftDown(v, i), 1, Len(v) - 1)
         ELSE PopFrom(v, L, i + 1)
    ELSE v

\* A Cube::pop that drops the last literal without the shift.
Cube_pop_last(c, L) ==
    IF Cube_contains(c, L) THEN SubSeq(c, 1, Len(c) - 1) ELSE c

\* Cube::pop: the first occurrence of L leaves, the rest moves down.
Cube_pop(c, L) == PopFrom(c, L, 0)

\* The loop of Cube::operator+ from position i of other on.
RECURSIVE PushAll(_, _, _)
PushAll(ret, other, i) ==
    IF i < Len(other) THEN PushAll(Cube_push(ret, other[i + 1]), other, i + 1)
    ELSE ret

\* Cube::operator+: this cube with every literal of other pushed.
Cube_plus(c, other) == PushAll(c, other, 0)

\* size_t, at the width SizeBits: the arithmetic of sizes is modulo SizeMod.
SizeBits == 16
SizeMod  == 2 ^ SizeBits

\* The loop of Cube::sane from position i on.  The result is the set of the
\* outcomes the call can have: ret is the value returned, outside tells that
\* literals[i] or literals[i + 1] was read at a position the vector does
\* not have, after which the value returned is any.
RECURSIVE SaneFrom(_, _)
SaneFrom(c, i) ==
    IF i < (Len(c) - 1) % SizeMod
    THEN IF i + 1 >= Len(c)
         THEN {[ret |-> b, outside |-> TRUE] : b \in BOOLEAN}
         ELSE IF ~(c[i + 1] < c[i + 2]) THEN {[ret |-> FALSE, outside |-> FALSE]}
         ELSE IF c[i + 1] \div 2 = c[i + 2] \div 2
              THEN {[ret |-> FALSE, outside |-> FALSE]}
         ELSE SaneFrom(c, i + 1)
    ELSE {[ret |-> TRUE, outside |-> FALSE]}

\* Cube::sane.
Cube_sane(c) == SaneFrom(c, 0)

(***************************************************************************)
(* Cube actions, on the cube cubes[k]; the union stores cubes[k] + the     *)
(* other cube in cubes[k].                                                 *)
(***************************************************************************)
NoCuCall == [op |-> "none", k |-> 0, L |-> -1, rep |-> FALSE,
             ret |-> FALSE, outside |-> FALSE]

CubePush(k, L) ==
    /\ cubes' = [cubes EXCEPT ![k] = Cube_push(@, L)]
    /\ cuSet' = [cuSet EXCEPT ![k] = @ \cup {L}]
    /\ cuLast' = [NoCuCall EXCEPT !.op = "push", !.k = k, !.L = L]
    /\ cuBefore' = cubes[k]
    /\ UNCHANGED exceptCube

CubePop(k, L) ==
    LET follows == cuLast.op = "push" /\ cuLast.k = k /\ cuLast.L = L
    IN  /\ cubes' = [cubes EXCEPT ![k] = Cube_pop(@, L)]
        /\ cuSet' = [cuSet EXCEPT ![k] = @ \ {L}]
        /\ cuLast' = [NoCuCall EXCEPT !.op = "pop", !.k = k, !.L = L,
                                      !.rep = follows]
        /\ cuBefore' = IF follows THEN cuBefore ELSE Cube_new
        /\ UNCHANGED exceptCube

CubeClear(k) ==
    /\ cubes' = [cubes EXCEPT ![k] = Cube_clear(@)]
    /\ cuSet' = [cuSet EXCEPT ![k] = {}]
    /\ cuLast' = [NoCuCall EXCEPT !.op = "clear", !.k = k]
    /\ cuBefore' = Cube_new
    /\ UNCHANGED exceptCube

CubePlus(k) ==
    /\ cubes' = [cubes EXCEPT ![k] = Cube_plus(@, cubes[3 - k])]
    /\ cuSet' = [cuSet EXCEPT ![k] = @ \cup cuSet[3 - k]]
    /\ cuLast' = [NoCuCall EXCEPT !.op = "plus", !.k = k]
    /\ cuBefore' = Cube_new
    /\ UNCHANGED exceptCube

\* Cube::sane on the cube cubes[k].
CubeSane(k) ==
    /\ \E o \in Cube_sane(cubes[k]) :
           cuLast' = [NoCuCall EXCEPT !.op = "sane", !.k = k, !.ret = o.ret,
                                      !.outside = o.outside]
    /\ cuBefore' = Cube_new
    /\ UNCHANGED <<cubes, cuSet>>
    /\ UNCHANGED exceptCube

(***************************************************************************)
(* The CDCL engine under the cubifying solver (MiniSat's Solver, extended  *)
(* with the Bimap member bi).  The solver object is one record:            *)
(*   nVars        the number of variables created                          *)
(*   clauses      the problem clauses, a vector of clauses; a clause is    *)
(*                the set of its literals                                  *)
(*   trail, trail_lim, qhead   the assignment trail, the trail size at     *)
(*                each decision level, and the propagation queue head      *)
(*   ok, assumptions, conflict, propagations, conflicts, interrupted       *)
(*   bi, cq, ci, cubifyQueue, literalDifficulty  the cubification members  *)
(*   cubifications, cubeRefutations, exitPoint   the step counters         *)
(*   k_t, k_c, maxCubifiableSize, alwaysSearchCube   the options           *)
(* A literal is its encoding 2 * var + sign.  The engine keeps no learnt   *)
(* clause besides the level-0 units a search may leave on the trail.       *)
(***************************************************************************)
MaxVar == 5       \* the variables 0 .. MaxVar - 1 occur in the problems

Vars == 0 .. (MaxVar - 1)
Lits == 0 .. (2 * MaxVar - 1)

\* ~L: the sign bit flipped.
Neg(L) == IF L % 2 = 0 THEN L + 1 ELSE L - 1

\* var(L).
VarOf(L) == L \div 2

\* lbool values and the undefined literal.
l_True  == "l_True"
l_False == "l_False"
l_Undef == "l_Undef"
lit_Undef == -2

\* The total assignments, each the set of its true literals.
Assignments ==
    {A \in SUBSET Lits : \A v \in Vars : Cardinality(A \cap {2 * v, 2 * v + 1}) = 1}

\* The total assignments that satisfy every clause of cs and every literal
\* of the set units.
ModelsOf(cs, units) ==
    {A \in Assignments : units \subseteq A /\ \A c \in cs : c \cap A # {}}

\* Solver::decisionLevel.
decisionLevel(s) == Len(s.trail_lim)

\* Solver::value(Lit).
value(s, L) ==
    IF L \in Range(s.trail) THEN l_True
    ELSE IF Neg(L) \in Range(s.trail) THEN l_False
    ELSE l_Undef

\* Solver::newDecisionLevel.
newDecisionLevel(s) == [s EXCEPT !.trail_lim = Append(@, Len(s.trail))]

\* Solver::cancelUntil: the trail is cut back to the given level.
cancelUntil(s, level) ==
    IF decisionLevel(s) > level
    THEN [s EXCEPT !.trail     = SubSeq(@, 1, s.trail_lim[level + 1]),
                   !.qhead     = s.trail_lim[level + 1],
                   !.trail_lim = SubSeq(@, 1, level)]
    ELSE s

\* Solver::enqueue of a literal whose value is undefined.
enqueue(s, L) == [s EXCEPT !.trail = Append(@, L)]

\* The literals that unit propagation forces under the assignment A.
Forced(cs, A) ==
    {L \in Lits :
        /\ L \notin A /\ Neg(L) \notin A
        /\ \E c \in cs : L \in c /\ \A K \in c \ {L} : Neg(K) \in A}

\* Unit propagation to its fixpoint, or to a conflict: the trail reached,
\* and whether a clause was found falsified.
RECURSIVE UnitPropagation(_, _)
UnitPropagation(cs, trail) ==
    IF \E c \in cs : \A K \in c : Neg(K) \in Range(trail)
    THEN [trail |-> trail, confl |-> TRUE]
    ELSE The({IF F = {} THEN [trail |-> trail, confl |-> FALSE]
              ELSE IF \E L \in F : Neg(L) \in F
                   THEN [trail |-> trail \o CubeOf(F), confl |-> TRUE]
                   ELSE UnitPropagation(cs, trail \o CubeOf(F)) :
              F \in {Forced(cs, Range(trail))}})

\* Solver::propagate: the trail is extended by every forced literal and
\* propagations counts the trail entries processed; confl tells whether a
\* conflicting clause was returned.
propagate(s) ==
    The({[s     |-> [s EXCEPT !.trail = r.trail,
                              !.qhead = Len(r.trail),
                              !.propagations = @ + (Len(r.trail) - s.qhead)],
          confl |-> r.confl] :
         r \in {UnitPropagation(Range(s.clauses), s.trail)}})

\* Solver::addClause_ with the call bi.add(slot) of the extended engine: at
\* level 0 the clause loses its false literals; a satisfied or tautological
\* clause is skipped, an empty one makes the solver inconsistent, a unit is
\* enqueued and propagated, any other clause is appended to clauses and
\* gets a persistent id.  ret is the bool returned.
addClause_(s, ps) ==
    IF ~s.ok THEN [s |-> s, ret |-> FALSE]
    ELSE LET c == {L \in ps : value(s, L) # l_False}
         IN  IF (\E L \in ps : value(s, L) = l_True \/ Neg(L) \in ps)
             THEN [s |-> s, ret |-> TRUE]
             ELSE IF c = {}
             THEN [s |-> [s EXCEPT !.ok = FALSE], ret |-> FALSE]
             ELSE IF Cardinality(c) = 1
             THEN The({[s   |-> [r.s EXCEPT !.ok = ~r.confl],
                        ret |-> ~r.confl] :
                       r \in {propagate(enqueue(s, CHOOSE L \in c : TRUE))}})
             ELSE [s   |-> [s EXCEPT !.clauses = Append(@, c),
                                     !.bi = Bimap_add(@, Len(s.clauses)).bi],
                   ret |-> TRUE]

(***************************************************************************)
(* CubifyingSolverBase and CubifyingSolver (src/cs/CubifyingSolverBase.cc, *)
(* src/cs/CubifyingSolver.cc): one operator per method, from the solver    *)
(* record to the solver record it leaves, with the value returned.  A cube *)
(* is the ascending sequence of its literals (see Cube above).             *)
(***************************************************************************)
CubeBudget == 1000000     \* the default cubeBudget of the member cq
INT_MAX    == 2147483647  \* the seed of literalDifficulty

\* Cube::invert: the clause of the negated literals.
Cube_invert(cube) == {Neg(cube[k]) : k \in 1 .. Len(cube)}

\* Cube::inverted(clause), and the cube of any set of literals.
Cube_inverted(clause) == CubeOf({Neg(L) : L \in clause})

\* Cube::subsetOf.
Cube_subsetOf(c, other) == \A k \in 1 .. Len(c) : Cube_contains(other, c[k])

\* CubifyingSolverBase::learnNegationOf.
learnNegationOf(s, cube) == addClause_(s, Cube_invert(cube))

\* A dropClause that shrinks the vector without moving the last clause
\* into the vacated slot.
dropClause_lose_last(s, i) ==
    LET j == Len(s.clauses) - 1
    IN  IF i = j
        THEN [s EXCEPT !.bi = Bimap_drop(@, j),
                       !.clauses = SubSeq(@, 1, j)]
        ELSE [s EXCEPT !.clauses = SubSeq(@, 1, j),
                       !.bi = Bimap_drop(Bimap_swap(@, i, j), j)]

\* A dropClause that moves the last clause without swapping the ids: the
\* id of the deleted clause stays on slot i.
dropClause_ids_stay(s, i) ==
    LET j == Len(s.clauses) - 1
    IN  [s EXCEPT !.clauses = SubSeq(VecSet(@, i, s.clauses[j + 1]), 1, j),
                  !.bi = Bimap_drop(@, j)]

\* CubifyingSolverBase::dropClause: the clause at slot i leaves; the last
\* clause takes its slot, and the Bimap follows.
dropClause(s, i) ==
    LET j == Len(s.clauses) - 1
    IN  IF i = j
        THEN [s EXCEPT !.bi = Bimap_drop(@, j),
                       !.clauses = SubSeq(@, 1, j)]
        ELSE [s EXCEPT !.clauses = SubSeq(VecSet(@, i, s.clauses[j + 1]), 1, j),
                       !.bi = Bimap_drop(Bimap_swap(@, i, j), j)]

\* The loop of CubifyingSolver::bootstrap from slot i on.
RECURSIVE BootstrapFrom(_, _)
BootstrapFrom(s, i) ==
    IF i < Len(s.clauses)
    THEN BootstrapFrom([s EXCEPT !.cubifyQueue = Append(@, Bimap_bw(s.bi, i))], i + 1)
    ELSE s

\* CubifyingSolver::bootstrap.
bootstrap(s) ==
    [BootstrapFrom(s, 0) EXCEPT
        !.literalDifficulty = [L \in 0 .. (2 * s.nVars - 1) |->
            IF L \in DOMAIN @ THEN @[L] ELSE INT_MAX]]

\* CubifyingSolver::canCubify.
canCubify(s) ==
    \E k \in 1 .. Len(s.cubifyQueue) : Bimap_fw(s.bi, s.cubifyQueue[k]) >= 0

\* The option k_t is a double greater than 0; the model holds it as a whole
\* number of KtDen-ths.
KtDen == 2

\* The density gate of pickCube: bestScore() < k_t * meanScore(), with
\* meanScore() = sumScore / numSeen, compared without the divisions.
BelowDensity(s) ==
    CubeQueue_bestScore(s.cq) * s.cq.numSeen * KtDen < s.k_t * s.cq.sumScore

\* A pickCube without the density gate.
pickCube_ungated(s, cube, rnd) ==
    IF CubeQueue_empty(s.cq) THEN [ret |-> FALSE, cube |-> cube]
    ELSE [ret |-> TRUE, cube |-> CubeQueue_peekBest(s.cq, rnd)]

\* CubifyingSolver::pickCube, with rnd the value irand returns: the bool
\* returned and the cube left in the reference argument.
pickCube(s, cube, rnd) ==
    IF CubeQueue_empty(s.cq) THEN [ret |-> FALSE, cube |-> cube]
    ELSE IF BelowDensity(s) THEN [ret |-> FALSE, cube |-> cube]
    ELSE [ret |-> TRUE, cube |-> CubeQueue_peekBest(s.cq, rnd)]

\* The loop of refuteCube over the parent ids ii, from position k on.
RECURSIVE DropParents(_, _, _)
DropParents(s, ii, k) ==
    IF k < Len(ii)
    THEN LET j == Bimap_fw(s.bi, ii[k + 1])
         IN  DropParents(IF j >= 0 THEN dropClause(s, j) ELSE s, ii, k + 1)
    ELSE s

\* A refuteCube that leaves the parent clauses of the cube in the database.
refuteCube_keep_parents(s, base, reduced) ==
    The({The({
        [s |-> s2, ret |-> IF s2.ok THEN l_Undef ELSE l_False,
         queued |-> IF Len(s2.cubifyQueue) > Len(s1.cubifyQueue)
                    THEN Len(s1.clauses) ELSE -1,
         id |-> IF Len(s2.clauses) > Len(s1.clauses)
                THEN Bimap_bw(s2.bi, Len(s2.clauses) - 1) ELSE -1] :
        s2 \in {IF ~CubeIndex_contains(s1.ci, reduced, 0)
                THEN [learnNegationOf(
                          [s1 EXCEPT !.cubifyQueue = Append(@, Len(s1.clauses))],
                          reduced).s
                      EXCEPT !.ci = CubeIndex_push(@, reduced, 0)]
                ELSE s1}}) :
        s1 \in {[s EXCEPT !.cq = CubeQueue_pop(@, base)]}})

\* A refuteCube that leaves the refuted cube in the CubeQueue.
refuteCube_keep_base(s, base, reduced) ==
    The({The({
        [s |-> s2, ret |-> IF s2.ok THEN l_Undef ELSE l_False,
         queued |-> IF Len(s2.cubifyQueue) > Len(s1.cubifyQueue)
                    THEN Len(s1.clauses) ELSE -1,
         id |-> IF Len(s2.clauses) > Len(s1.clauses)
                THEN Bimap_bw(s2.bi, Len(s2.clauses) - 1) ELSE -1] :
        s2 \in {IF ~CubeIndex_contains(s1.ci, reduced, 0)
                THEN [learnNegationOf(
                          [s1 EXCEPT !.cubifyQueue = Append(@, Len(s1.clauses))],
                          reduced).s
                      EXCEPT !.ci = CubeIndex_push(@, reduced, 0)]
                ELSE s1}}) :
        s1 \in {DropParents(s, CubeQueue_getParentInds(s.cq, base), 0)}})

\* CubifyingSolver::refuteCube: the solver afterwards, the lbool returned,
\* the value pushed on cubifyQueue and the id the Bimap gave the clause
\* added (each -1 when there is none).
refuteCube(s, base, reduced) ==
    The({The({
        [s |-> s2, ret |-> IF s2.ok THEN l_Undef ELSE l_False,
         queued |-> IF Len(s2.cubifyQueue) > Len(s1.cubifyQueue)
                    THEN Len(s1.clauses) ELSE -1,
         id |-> IF Len(s2.clauses) > Len(s1.clauses)
                THEN Bimap_bw(s2.bi, Len(s2.clauses) - 1) ELSE -1] :
        s2 \in {IF ~CubeIndex_contains(s1.ci, reduced, 0)
                THEN [learnNegationOf(
                          [s1 EXCEPT !.cubifyQueue = Append(@, Len(s1.clauses))],
                          reduced).s
                      EXCEPT !.ci = CubeIndex_push(@, reduced, 0)]
                ELSE s1}}) :
        s1 \in {DropParents([s EXCEPT !.cq = CubeQueue_pop(@, base)],
                            CubeQueue_getParentInds(s.cq, base), 0)}})

\* A pruneClause that adds the negation of C and keeps the clause.
pruneClause_keep_clause(s, i, C, ub) ==
    IF ~CubeIndex_contains(s.ci, C, 0)
    THEN addClause_(s, Cube_invert(C))
    ELSE [s |-> s, ret |-> ub]

\* CubifyingSolver::pruneClause.  When C is in the index the function ends
\* without a return statement: the bool the caller reads is ub, any value.
pruneClause(s, i, C, ub) ==
    LET s1 == dropClause(s, i)
    IN  IF ~CubeIndex_contains(s1.ci, C, 0)
        THEN addClause_(s1, Cube_invert(C))
        ELSE [s |-> s1, ret |-> ub]

(***************************************************************************)
(* The path planner.                                                       *)
(***************************************************************************)

\* The cube of the literals of the vector C except the one at position i.
Terminal(C, i) == CubeOf({C[j + 1] : j \in (0 .. (Len(C) - 1)) \ {i}})

\* The first loop of makeCubifyPathDifficultyOrder from position k of the
\* cube C on: a literal whose subcube is in the queue goes to the front part
\* (and the queue records clause iClause as a parent of that subcube), any
\* other literal to the back part, which is filled from the end.
RECURSIVE Partition(_, _, _, _, _, _)
Partition(s, C, iClause, k, front, back) ==
    IF k < Len(C)
    THEN LET L    == C[k + 1]
             term == SelectSeq(C, LAMBDA K : K # L)
         IN  IF CubeQueue_contains(s.cq, term)
             THEN Partition(
                      [s EXCEPT !.cq = CubeQueue_addParentInd(@, term,
                                           Bimap_bw(s.bi, iClause))],
                      C, iClause, k + 1, Append(front, L), back)
             ELSE Partition(s, C, iClause, k + 1, front, <<L>> \o back)
    ELSE [s |-> s, front |-> front, back |-> back]

\* The arrangements of the vector v.
Arrangements(v) ==
    {[k \in 1 .. Len(v) |-> v[p[k]]] :
        p \in {q \in [1 .. Len(v) -> 1 .. Len(v)] :
                  \A m, n \in 1 .. Len(v) : m # n => q[m] # q[n]}}

\* The results std::sort may leave for the back part: every arrangement in
\* which literalDifficulty does not increase (the order of literals of equal
\* difficulty is unspecified).
SortedByDifficulty(s, back) ==
    {v \in Arrangements(back) :
        \A k \in 1 .. (Len(v) - 1) :
            s.literalDifficulty[v[k]] >= s.literalDifficulty[v[k + 1]]}

\* The literal orders makeCubifyPathDifficultyOrder may hand to
\* makeCubifyPath for the cube C of clause iClause.
DifficultyOrders(s, C, iClause) ==
    The({{r.front \o v : v \in SortedByDifficulty(s, r.back)} :
         r \in {Partition(s, C, iClause, 0, <<>>, <<>>)}})

\* A second loop that looks a cube up in the CubeIndex only when it is a
\* full subcube.
RECURSIVE PathPushes_full_only(_, _, _, _, _, _)
PathPushes_full_only(s, C, i, j, cube, path) ==
    IF j < Len(C)
    THEN IF j = i \/ (j < i /\ j < Cube_size(cube)) \/ (j > i /\ j <= Cube_size(cube))
         THEN PathPushes_full_only(s, C, i, j + 1, cube, path)
         ELSE LET L  == C[j + 1]
                  c1 == Cube_push(cube, L)
              IN  IF Cube_size(c1) = Len(C) - 1 /\ CubeIndex_contains(s.ci, c1, 0)
                  THEN [ret |-> FALSE, cube |-> c1, path |-> path]
                  ELSE PathPushes_full_only(s, C, i, j + 1, c1, Append(path, L))
    ELSE [ret |-> TRUE, cube |-> cube, path |-> path]

\* The second loop of makeCubifyPath for subcube i, from position j on: the
\* literals still missing are pushed; ret is FALSE when a pushed cube is in
\* the CubeIndex.
RECURSIVE PathPushes(_, _, _, _, _, _)
PathPushes(s, C, i, j, cube, path) ==
    IF j < Len(C)
    THEN IF j = i \/ (j < i /\ j < Cube_size(cube)) \/ (j > i /\ j <= Cube_size(cube))
         THEN PathPushes(s, C, i, j + 1, cube, path)
         ELSE LET L  == C[j + 1]
                  c1 == Cube_push(cube, L)
              IN  IF CubeIndex_contains(s.ci, c1, 0)
                  THEN [ret |-> FALSE, cube |-> c1, path |-> path]
                  ELSE PathPushes(s, C, i, j + 1, c1, Append(path, L))
    ELSE [ret |-> TRUE, cube |-> cube, path |-> path]

\* A third loop that leaves the last literal of the order on the cube.
RECURSIVE PathPops_keep_last(_, _, _, _)
PathPops_keep_last(C, j, cube, path) ==
    IF j < Len(C) - 1
    THEN PathPops_keep_last(C, j + 1, Cube_pop(cube, C[j + 1]),
                            Append(path, lit_Undef))
    ELSE [cube |-> cube, path |-> path]

\* A third loop that emits one cancel sentinel more than it pops literals.
RECURSIVE PathPops_one_more(_, _, _, _)
PathPops_one_more(C, j, cube, path) ==
    IF j < Len(C)
    THEN PathPops_one_more(C, j + 1, Cube_pop(cube, C[j + 1]),
                           Append(path, lit_Undef))
    ELSE [cube |-> cube, path |-> Append(path, lit_Undef)]

\* The third loop of makeCubifyPath for subcube i, from position j on.
RECURSIVE PathPops(_, _, _, _)
PathPops(C, j, cube, path) ==
    IF j < Len(C)
    THEN PathPops(C, j + 1, Cube_pop(cube, C[j + 1]), Append(path, lit_Undef))
    ELSE [cube |-> cube, path |-> path]

\* The outer loop of makeCubifyPath from subcube i on.
RECURSIVE PathFrom(_, _, _, _, _)
PathFrom(s, C, i, cube, path) ==
    IF i < Len(C)
    THEN IF ~CubeQueue_contains(s.cq, Terminal(C, i))
         THEN The({IF ~a.ret THEN [ret |-> FALSE, path |-> a.path]
                   ELSE The({PathFrom(s, C, i + 1, b.cube, b.path) :
                             b \in {PathPops(C, i + 1, a.cube, a.path)}}) :
                   a \in {PathPushes(s, C, i, 0, cube, path)}})
         ELSE PathFrom(s, C, i + 1, cube, path)
    ELSE [ret |-> TRUE, path |-> path]

\* CubifyingSolver::makeCubifyPath: the bool returned and the path emitted.
makeCubifyPath(s, C) == PathFrom(s, C, 0, Cube_new, <<>>)

\* CubifyingSolver::makeCubifyPathDifficultyOrder for the literal order c
\* that its sort left: the solver (the queue has the new parents), the bool
\* returned and the path.
makeCubifyPathDifficultyOrder(s, C, c, iClause) ==
    The({The({[s |-> r.s, ret |-> m.ret, path |-> m.path] :
              m \in {makeCubifyPath(r.s, c)}}) :
         r \in {Partition(s, C, iClause, 0, <<>>, <<>>)}})

(***************************************************************************)
(* Path execution and cubification.                                        *)
(***************************************************************************)
ScoreUnit == 60   \* a score num / den is held as the integer ScoreUnit * num / den

\* double score = num / den.
ScoreOf(num, den) == (ScoreUnit * num) \div den

\* The loop of cubifyInternal from position k of the path on.  x is the
\* loop's frame: the solver, cube, stack, the conflict flag, and two
\* observations: lowest, the lowest decision level the loop has been at,
\* and underflow, set when the loop reads stack.back() on an empty stack or
\* cancels below level 0 (the loop is left there).
RECURSIVE ExecPath(_, _, _, _, _)
ExecPath(x, path, k, i, trail0) ==
    IF k >= Len(path) THEN x
    ELSE LET L == path[k + 1]
             s == x.s
         IN  IF L = lit_Undef
             THEN IF x.stack = <<>> \/ decisionLevel(s) = 0
                  THEN [x EXCEPT !.underflow = TRUE]
                  ELSE LET s1 == cancelUntil(s, decisionLevel(s) - 1)
                       IN  ExecPath(
                               [x EXCEPT !.s = s1,
                                         !.cube = Cube_pop(@, x.stack[Len(x.stack)]),
                                         !.stack = SubSeq(@, 1, Len(@) - 1),
                                         !.lowest = IF decisionLevel(s1) < @
                                                    THEN decisionLevel(s1) ELSE @],
                               path, k + 1, i, trail0)
             ELSE LET s1 == newDecisionLevel(s)
                      v  == value(s1, L)
                      x1 == [x EXCEPT !.s = s1, !.stack = Append(@, L)]
                  IN  IF v = l_False
                      THEN [x1 EXCEPT !.cube = Cube_push(@, L), !.conflict = TRUE]
                      ELSE IF v = l_True
                      THEN ExecPath(x1, path, k + 1, i, trail0)
                      ELSE The({
                           LET cube == Cube_push(x.cube, L)
                               s2   == IF Cube_size(cube) = 1
                                       THEN [r.s EXCEPT !.literalDifficulty[L] =
                                                r.s.propagations - s1.propagations]
                                       ELSE r.s
                               score == ScoreOf(Len(s2.trail) - trail0, Cube_size(cube))
                               s3   == IF score > ScoreUnit
                                       THEN [s2 EXCEPT !.cq = CubeQueue_push(@, cube,
                                                        score, Bimap_bw(s2.bi, i))]
                                       ELSE s2
                           IN  IF r.confl
                               THEN [x1 EXCEPT !.s = r.s, !.cube = cube,
                                               !.conflict = TRUE]
                               ELSE ExecPath([x1 EXCEPT !.s = s3, !.cube = cube],
                                             path, k + 1, i, trail0) :
                           r \in {propagate(enqueue(s1, L))}})

\* A cubifyInternal that returns at a conflict without unwinding the trail.
cubifyInternal_no_unwind(s, i, root, c) ==
    The({IF ~m.ret
         THEN [s |-> m.s, post |-> Cube_new, planned |-> FALSE, path |-> m.path,
               lowest |-> decisionLevel(m.s), underflow |-> FALSE]
         ELSE The({[s |-> IF x.conflict THEN x.s ELSE cancelUntil(x.s, decisionLevel(m.s)),
                    post |-> IF x.conflict THEN x.cube ELSE root,
                    planned |-> TRUE, path |-> m.path,
                    lowest |-> x.lowest, underflow |-> x.underflow] :
                   x \in {ExecPath([s |-> m.s, cube |-> Cube_new, stack |-> <<>>,
                                    conflict |-> FALSE,
                                    lowest |-> decisionLevel(m.s),
                                    underflow |-> FALSE],
                                   m.path, 0, i, Len(m.s.trail))}}) :
         m \in {makeCubifyPathDifficultyOrder(s, root, c, i)}})

\* A cubifyInternal that returns the cube its path ended with, conflict or
\* not.
cubifyInternal_last_cube(s, i, root, c) ==
    The({IF ~m.ret
         THEN [s |-> m.s, post |-> Cube_new, planned |-> FALSE, path |-> m.path,
               lowest |-> decisionLevel(m.s), underflow |-> FALSE]
         ELSE The({[s |-> cancelUntil(x.s, decisionLevel(m.s)),
                    post |-> x.cube,
                    planned |-> TRUE, path |-> m.path,
                    lowest |-> x.lowest, underflow |-> x.underflow] :
                   x \in {ExecPath([s |-> m.s, cube |-> Cube_new, stack |-> <<>>,
                                    conflict |-> FALSE,
                                    lowest |-> decisionLevel(m.s),
                                    underflow |-> FALSE],
                                   m.path, 0, i, Len(m.s.trail))}}) :
         m \in {makeCubifyPathDifficultyOrder(s, root, c, i)}})

\* A cubifyInternal that, at a conflict, returns the cube without the
\* literal pushed last.
cubifyInternal_short_post(s, i, root, c) ==
    The({IF ~m.ret
         THEN [s |-> m.s, post |-> Cube_new, planned |-> FALSE, path |-> m.path,
               lowest |-> decisionLevel(m.s), underflow |-> FALSE]
         ELSE The({[s |-> cancelUntil(x.s, decisionLevel(m.s)),
                    post |-> IF x.conflict
                             THEN Cube_pop(x.cube, x.stack[Len(x.stack)]) ELSE root,
                    planned |-> TRUE, path |-> m.path,
                    lowest |-> x.lowest, underflow |-> x.underflow] :
                   x \in {ExecPath([s |-> m.s, cube |-> Cube_new, stack |-> <<>>,
                                    conflict |-> FALSE,
                                    lowest |-> decisionLevel(m.s),
                                    underflow |-> FALSE],
                                   m.path, 0, i, Len(m.s.trail))}}) :
         m \in {makeCubifyPathDifficultyOrder(s, root, c, i)}})

\* CubifyingSolver::cubifyInternal for clause i and its root cube, with c
\* the literal order the planner's sort left: the solver afterwards, the
\* cube returned (post), whether a path was planned, the path, and the two
\* observations of the loop.
cubifyInternal(s, i, root, c) ==
    The({IF ~m.ret
         THEN [s |-> m.s, post |-> Cube_new, planned |-> FALSE, path |-> m.path,
               lowest |-> decisionLevel(m.s), underflow |-> FALSE]
         ELSE The({[s |-> cancelUntil(x.s, decisionLevel(m.s)),
                    post |-> IF x.conflict THEN x.cube ELSE root,
                    planned |-> TRUE, path |-> m.path,
                    lowest |-> x.lowest, underflow |-> x.underflow] :
                   x \in {ExecPath([s |-> m.s, cube |-> Cube_new, stack |-> <<>>,
                                    conflict |-> FALSE,
                                    lowest |-> decisionLevel(m.s),
                                    underflow |-> FALSE],
                                   m.path, 0, i, Len(m.s.trail))}}) :
         m \in {makeCubifyPathDifficultyOrder(s, root, c, i)}})

\* The root cube that cubify builds for the clause at slot i: the negations
\* of its literals of undefined value.
cubifyRoot(s, i) ==
    CubeOf({Neg(L) : L \in {K \in s.clauses[i + 1] : value(s, K) = l_Undef}})

\* Whether cubify(i) gets as far as cubifyInternal.
cubifyPlans(s, i) ==
    /\ \A L \in s.clauses[i + 1] : value(s, L) # l_True
    /\ Cube_size(cubifyRoot(s, i)) <= s.maxCubifiableSize

\* No call of cubifyInternal was made.
NoInternal ==
    [post |-> Cube_new, planned |-> FALSE, path |-> <<>>, lowest |-> 0,
     underflow |-> FALSE, called |-> FALSE, root |-> Cube_new, level0 |-> 0,
     level1 |-> 0]

\* A cubify that deletes the clause it could strengthen without adding the
\* stronger clause.
cubifyReplace_drop_only(s, i, n, post) ==
    IF Cube_size(post) < n
    THEN [s |-> dropClause(s, i), queued |-> -1, id |-> -1]
    ELSE [s |-> s, queued |-> -1, id |-> -1]

\* What cubify does with the cube post that cubifyInternal returned for the
\* clause at slot i, of size n: the solver afterwards, and the value pushed
\* on cubifyQueue with the id the Bimap gave the clause added (both -1 when
\* no clause was added).
cubifyReplace(s, i, n, post) ==
    IF Cube_size(post) = 0
    THEN [s |-> dropClause(s, i), queued |-> -1, id |-> -1]
    ELSE IF Cube_size(post) < n
    THEN LET s1 == dropClause(s, i)
         IN  IF Cube_size(post) = 1
             THEN [s |-> addClause_(s1, {Neg(post[1])}).s, queued |-> -1, id |-> -1]
             ELSE IF ~CubeIndex_contains(s1.ci, post, 0)
             THEN LET q == [s1 EXCEPT !.cubifyQueue = Append(@, Len(s1.clauses))]
                  IN  The({[s |-> [a EXCEPT !.ci = CubeIndex_push(@, post, 0)],
                            queued |-> Len(s1.clauses),
                            id |-> IF Len(a.clauses) > Len(s1.clauses)
                                   THEN Bimap_bw(a.bi, Len(a.clauses) - 1)
                                   ELSE -1] :
                           a \in {addClause_(q, Cube_invert(post)).s}})
             ELSE [s |-> s1, queued |-> -1, id |-> -1]
    ELSE [s |-> s, queued |-> -1, id |-> -1]

\* CubifyingSolver::cubify for the clause at slot i, with c the literal
\* order the planner's sort leaves and ub the value read where pruneClause
\* returns none: the solver afterwards, the lbool returned, the record int
\* of the cubifyInternal call, and queued / id as in cubifyReplace.
cubify(s, i, c, ub) ==
    LET clause == s.clauses[i + 1]
        root   == cubifyRoot(s, i)
    IN  IF \E L \in clause : value(s, L) = l_True
        THEN [s |-> s, ret |-> l_Undef, int |-> NoInternal, queued |-> -1, id |-> -1]
        ELSE IF Cube_size(root) > s.maxCubifiableSize
        THEN IF Cube_size(root) < Cardinality(clause)
             THEN The({[s |-> r.s, ret |-> IF r.ret THEN l_Undef ELSE l_False,
                        int |-> NoInternal, queued |-> -1, id |-> -1] :
                       r \in {pruneClause(s, i, root, ub)}})
             ELSE [s |-> s, ret |-> l_Undef, int |-> NoInternal,
                   queued |-> -1, id |-> -1]
        ELSE The({The({
                 [s   |-> t.s,
                  ret |-> IF t.s.ok THEN l_Undef ELSE l_False,
                  int |-> [post |-> r.post, planned |-> r.planned, path |-> r.path,
                           lowest |-> r.lowest, underflow |-> r.underflow,
                           called |-> TRUE, root |-> root,
                           level0 |-> decisionLevel(s),
                           level1 |-> decisionLevel(r.s)],
                  queued |-> t.queued, id |-> t.id] :
                 t \in {cubifyReplace(r.s, i, Cardinality(clause), r.post)}}) :
             r \in {cubifyInternal(s, i, root, c)}})

\* A cubifyOne loop that gives up at the first id, live or dead.
cubifyNext_first_id(s) ==
    IF s.cubifyQueue = <<>> THEN [s |-> s, i |-> -1]
    ELSE [s |-> [s EXCEPT !.cubifyQueue = SubSeq(@, 1, Len(@) - 1)],
          i |-> Bimap_fw(s.bi, s.cubifyQueue[Len(s.cubifyQueue)])]

\* A cubifyOne loop that leaves the live id it found on the queue.
RECURSIVE cubifyNext_keep_live(_)
cubifyNext_keep_live(s) ==
    IF s.cubifyQueue = <<>> THEN [s |-> s, i |-> -1]
    ELSE LET j  == s.cubifyQueue[Len(s.cubifyQueue)]
             s1 == [s EXCEPT !.cubifyQueue = SubSeq(@, 1, Len(@) - 1)]
         IN  IF Bimap_fw(s.bi, j) >= 0 THEN [s |-> s, i |-> Bimap_fw(s.bi, j)]
             ELSE cubifyNext_keep_live(s1)

\* The loop of cubifyOne: ids are popped off cubifyQueue until one resolves
\* to a live slot i, or until the queue is empty (i = -1).
RECURSIVE cubifyNext(_)
cubifyNext(s) ==
    IF s.cubifyQueue = <<>> THEN [s |-> s, i |-> -1]
    ELSE LET j  == s.cubifyQueue[Len(s.cubifyQueue)]
             s1 == [s EXCEPT !.cubifyQueue = SubSeq(@, 1, Len(@) - 1)]
         IN  IF Bimap_fw(s1.bi, j) >= 0 THEN [s |-> s1, i |-> Bimap_fw(s1.bi, j)]
             ELSE cubifyNext(s1)

\* The literal orders the planner's sort may leave in the cubifyOne call
\* made in state s (the empty order when no path is planned).
cubifyOrders(s) ==
    The({IF n.i >= 0 /\ cubifyPlans(n.s, n.i)
         THEN DifficultyOrders(n.s, cubifyRoot(n.s, n.i), n.i)
         ELSE {<<>>} :
         n \in {cubifyNext(s)}})

\* A cubifyOne that deletes a clause that has a true literal.
cubifyOne_drop_satisfied(s, c, ub) ==
    The({IF n.i >= 0
         THEN IF \E L \in n.s.clauses[n.i + 1] : value(n.s, L) = l_True
              THEN [s |-> dropClause(n.s, n.i), ret |-> l_Undef,
                    int |-> NoInternal, queued |-> -1, id |-> -1]
              ELSE cubify(n.s, n.i, c, ub)
         ELSE [s |-> n.s, ret |-> l_Undef, int |-> NoInternal,
               queued |-> -1, id |-> -1] :
         n \in {cubifyNext(s)}})

\* CubifyingSolver::cubifyOne.
cubifyOne(s, c, ub) ==
    The({IF n.i >= 0 THEN cubify(n.s, n.i, c, ub)
         ELSE [s |-> n.s, ret |-> l_Undef, int |-> NoInternal,
               queued |-> -1, id |-> -1] :
         n \in {cubifyNext(s)}})

(***************************************************************************)
(* The engine's search and simplify, by their contracts.                   *)
(***************************************************************************)
MaxSearchProps == 1   \* a search that returns l_Undef adds 0 .. MaxSearchProps
                      \* to propagations

\* The literals on the trail at level 0.
Level0(s) ==
    Range(IF s.trail_lim = <<>> THEN s.trail ELSE SubSeq(s.trail, 1, s.trail_lim[1]))

\* The literals of undefined value that every model of the clauses and the
\* level-0 literals makes true, and whose propagation meets no conflict:
\* the units a search may learn.
Learnable(s) ==
    {L \in 0 .. (2 * s.nVars - 1) :
        /\ value(s, L) = l_Undef
        /\ \A A \in ModelsOf(Range(s.clauses), Level0(s)) : L \in A
        /\ ~propagate(enqueue(s, L)).confl}

\* The outcomes of Solver::search(nof_conflicts), called at level 0:
\*   l_True   with a model of the clauses, the level-0 literals and the
\*            assumptions over the nVars variables, which the trail then
\*            holds above level 0;
\*   l_False  with the conflict vector untouched (final = {}), when the
\*            clauses and level-0 literals have no model, or, under
\*            assumptions, with the conflict vector holding the negations
\*            of a non-empty set final of assumptions that has no model;
\*            analyzeFinal puts no assumption that is true at level 0 into
\*            it, and an assumption that is false at level 0 alone; the
\*            search returns at the decision level of the assumptions it
\*            had taken, above level 0 unless the first one was false;
\*   l_Undef  at level 0, after nof_conflicts conflicts or an interrupt,
\*            with at most one learnt unit on the trail.
\* props is the number of propagations the search adds; it is counted for
\* the l_Undef outcome, the only one after which the counter is read.
searchOutcomes(s, nof_conflicts) ==
    LET cs   == Range(s.clauses)
        as   == Range(s.assumptions)
        sat  == [status : {l_True},
                 model : {A \cap (0 .. (2 * s.nVars - 1)) :
                             A \in ModelsOf(cs, Level0(s) \cup as)},
                 final : {{}}, unit : {-1}, interrupt : {FALSE},
                 props : {0}]
        uns  == [status : {l_False}, model : {{}},
                 final : {S \in SUBSET as :
                             IF S = {} THEN ModelsOf(cs, Level0(s)) = {}
                             ELSE /\ ModelsOf(cs, Level0(s) \cup S) = {}
                                  /\ S \cap Level0(s) = {}
                                  /\ \A L \in S : Neg(L) \in Level0(s) => S = {L}},
                 unit : {-1}, interrupt : {FALSE}, props : {0}]
        und  == [status : {l_Undef}, model : {{}}, final : {{}},
                 unit : {-1} \cup Learnable(s), interrupt : BOOLEAN,
                 props : 0 .. MaxSearchProps]
    IN  sat \cup uns \cup und

\* Solver::search(nof_conflicts) with the outcome o.
search(s, nof_conflicts, o) ==
    LET s0 == [s EXCEPT !.propagations = @ + o.props]
    IN  IF o.status = l_True
        THEN LET rest == CubeOf(o.model \ Range(s0.trail))
                 s1   == newDecisionLevel(s0)
             IN  [s1 EXCEPT !.trail = @ \o rest, !.qhead = Len(s1.trail) + Len(rest)]
        ELSE IF o.status = l_False
        THEN [(IF o.final # {} /\ value(s0, s0.assumptions[1]) # l_False
               THEN newDecisionLevel(s0) ELSE s0)
              EXCEPT !.conflict = IF o.final = {} THEN @
                                  ELSE {Neg(L) : L \in o.final},
                     !.conflicts = IF o.final = {} THEN @ + 1 ELSE @]
        ELSE LET s1 == IF o.unit >= 0 THEN propagate(enqueue(s0, o.unit)).s ELSE s0
             IN  [s1 EXCEPT !.propagations = s0.propagations,
                            !.conflicts = IF o.interrupt THEN @ ELSE @ + nof_conflicts,
                            !.interrupted = @ \/ o.interrupt]

\* Solver::withinBudget.
withinBudget(s) == ~s.interrupted

\* The rewrite of the clause vector by the engine's removeSatisfied, from
\* slot i on: a clause that is not satisfied moves to the next free slot j
\* and the Bimap is told with will_move(i, j).
RECURSIVE RemoveSatisfied(_, _, _, _)
RemoveSatisfied(s, i, kept, b) ==
    IF i < Len(s.clauses)
    THEN IF \E L \in s.clauses[i + 1] : value(s, L) = l_True
         THEN RemoveSatisfied(s, i + 1, kept, b)
         ELSE RemoveSatisfied(s, i + 1, Append(kept, s.clauses[i + 1]),
                              Bimap_will_move(b, i, Len(kept)))
    ELSE [s EXCEPT !.clauses = kept, !.bi = Bimap_flip_buffer(b)]

\* Solver::simplify, called at level 0: propagation, then, when rm says that
\* the engine removes satisfied clauses now, the rewrite of the clause
\* vector.  ret is the bool returned.
simplify(s, rm) ==
    IF ~s.ok THEN [s |-> s, ret |-> FALSE]
    ELSE The({IF r.confl THEN [s |-> [r.s EXCEPT !.ok = FALSE], ret |-> FALSE]
              ELSE [s |-> IF rm THEN RemoveSatisfied(r.s, 0, <<>>, r.s.bi)
                          ELSE r.s,
                    ret |-> TRUE] :
              r \in {propagate(s)}})

\* A searchCubeBranch that clears the assumptions without cancelUntil(0).
searchCubeBranch_no_cancel(s, cube, budget, o) ==
    LET s1 == [s EXCEPT !.assumptions = @ \o cube, !.conflict = {}]
        s2 == search(s1, budget, o)
    IN  IF o.status = l_True THEN s2
        ELSE [s2 EXCEPT !.assumptions = <<>>]

\* The loop of CubifyingSolverBase::isConflicted from literal k of the cube
\* on, at the decision level it has opened: whether the cube is found in
\* conflict.  enqueue leaves a literal that is already true alone.
RECURSIVE isConflictedFrom(_, _, _)
isConflictedFrom(s, cube, k) ==
    IF k <= Len(cube)
    THEN IF value(s, cube[k]) = l_False THEN TRUE
         ELSE isConflictedFrom(IF value(s, cube[k]) = l_True THEN s
                               ELSE enqueue(s, cube[k]), cube, k + 1)
    ELSE propagate(s).confl

\* CubifyingSolverBase::isConflicted: the bool returned (the solver is back
\* at level 0 afterwards).
isConflicted(s, cube) == isConflictedFrom(newDecisionLevel(s), cube, 1)

\* CubifyingSolverBase::searchCubeBranch with the outcome o of its search:
\* the solver afterwards (the lbool returned is o.status).
searchCubeBranch(s, cube, budget, o) ==
    LET s1 == [s EXCEPT !.assumptions = @ \o cube, !.conflict = {}]
        s2 == search(s1, budget, o)
    IN  IF o.status = l_True THEN s2
        ELSE [cancelUntil(s2, 0) EXCEPT !.assumptions = <<>>]

\* The outcomes of the search that searchCubeBranch(cube, budget) makes.
searchCubeBranchOutcomes(s, cube, budget) ==
    searchOutcomes([s EXCEPT !.assumptions = @ \o cube, !.conflict = {}], budget)

(***************************************************************************)
(* interleavedSolve (src/cs/InterleavedSolver.cc) over the steps of        *)
(* CubifyingSolverBase::interleavedSolveStep.  pc is the position:         *)
(*   "ready"       before interleavedSolveInternal                         *)
(*   "search"      before the search of a step                             *)
(*   "cubify"      at the head of the cubification loop                    *)
(*   "cubeGate"    at the gate of the cube search                          *)
(*   "cubeSearch"  at the head of the cube-search loop                     *)
(*   "cubeBranch"  after pickCube returned true                            *)
(*   "simplify"    before the simplify of a step                           *)
(*   "stepEnd"     after the step returned                                 *)
(*   "done"        after interleavedSolveInternal returned                 *)
(***************************************************************************)
MaxRestarts == 2   \* a run makes at most MaxRestarts steps
MaxKt       == 2   \* the largest whole value of the option k_t

\* The solver after construction, with the options given.
Solver_new(cfg) ==
    [nVars |-> 0, clauses |-> <<>>, trail |-> <<>>, trail_lim |-> <<>>,
     qhead |-> 0,
     ok |-> TRUE, assumptions |-> <<>>, conflict |-> {}, propagations |-> 0,
     conflicts |-> 0, interrupted |-> FALSE,
     bi |-> Bimap_new, cq |-> CubeQueue_new(CubeBudget), ci |-> CubeIndex_new,
     cubifyQueue |-> <<>>, literalDifficulty |-> EmptyMap,
     cubifications |-> 0, cubeRefutations |-> 0, exitPoint |-> 0,
     k_t |-> cfg.k_t, k_c |-> cfg.k_c,
     maxCubifiableSize |-> cfg.maxCubifiableSize,
     alwaysSearchCube |-> cfg.alwaysSearchCube]

\* The clauses of a problem added one by one, as the parser of main does:
\* the variables of a clause are created before the clause is added.
RECURSIVE AddClauses(_, _)
AddClauses(s, P) ==
    IF P = <<>> THEN s
    ELSE LET n  == SetMax({s.nVars} \cup {VarOf(L) + 1 : L \in Head(P)})
             s1 == [s EXCEPT !.nVars = n]
         IN  AddClauses(addClause_(s1, Head(P)).s, Tail(P))

\* The first loop of luby.
RECURSIVE LubyUp(_, _, _)
LubyUp(size, seq, x) ==
    IF size < x + 1 THEN LubyUp(2 * size + 1, seq + 1, x)
    ELSE [size |-> size, seq |-> seq]

\* The second loop of luby.
RECURSIVE LubyDown(_, _, _)
LubyDown(size, seq, x) ==
    IF size - 1 # x
    THEN LubyDown((size - 1) \div 2, seq - 1, x % ((size - 1) \div 2))
    ELSE seq

\* InterleavedSolver::luby.
luby(x) == LET u == LubyUp(1, 0, x) IN LubyDown(u.size, u.seq, x)

\* InterleavedSolver::lubyExp with base restart_inc = 2.
lubyExp(x) == 2 ^ luby(x)

\* The budget of step curr_restarts, with luby_restart set and
\* restart_first = 1.
StepBudget(curr_restarts) == lubyExp(curr_restarts)

\* The locals before the first step; propagationsAfterSearch is the value
\* of the propagation counter when the search of the step returned.
NoFrame ==
    [status |-> l_Undef, conflictBudget |-> 0, propagationLimit |-> 0,
     conflicts_limit |-> 0, cube |-> Cube_new, curr_restarts |-> 0,
     propagationsBeforeSearch |-> 0, propagationsAfterSearch |-> 0]

\* What a step observed: the call of cubifyInternal (int), the value pushed
\* on cubifyQueue and the id of the clause added (queued, id), the result
\* of pickCube (pick) for the cube argument cubeIn, the reduced cube, and
\* the slot argument of a call made on the clause database (slot), the
\* decision level at which refuteCube was called (level), and the literal
\* order handed to makeCubifyPath (order).
NoObs ==
    [op |-> "none", int |-> NoInternal, queued |-> -1, id |-> -1,
     pick |-> FALSE, cubeIn |-> Cube_new, reduced |-> Cube_new, slot |-> -1,
     level |-> -1, order |-> <<>>, popped |-> 0]

\* interleavedSolveInternal up to the first step.
Solve ==
    /\ pc = "ready"
    /\ LET s0 == [sv EXCEPT !.conflict = {}]
       IN  IF ~s0.ok
           THEN /\ sv' = s0
                /\ fr' = [fr EXCEPT !.status = l_False]
                /\ pc' = "done"
           ELSE /\ sv' = bootstrap(s0)
                /\ fr' = [NoFrame EXCEPT !.conflictBudget = StepBudget(0)]
                /\ pc' = "search"
    /\ svLast' = [NoObs EXCEPT !.op = "solve"]
    /\ UNCHANGED orig
    /\ UNCHANGED exceptSolver

\* The condition under which a step runs its cubification loop.
CubifyGate(status) == status = l_Undef

\* A cube-search gate that looks at the status only.
CubeSearchGate_status_only(s, status) == status = l_Undef

\* The condition under which a step enters its cube-search loop.
CubeSearchGate(s, status) ==
    status = l_Undef /\ (~canCubify(s) \/ s.alwaysSearchCube)

\* The condition under which a step calls simplify.
SimplifyGate(status) == status = l_Undef

\* A propagation limit that lets a clause in after a search that did not
\* propagate.
PropagationLimit_one_more(s, propagationsBeforeSearch) ==
    s.propagations + s.k_c * (s.propagations - propagationsBeforeSearch) + 1

\* The propagation limit of the cubification loop, computed when the search
\* has returned: propagationBudget = k_c * (propagations -
\* propagationsBeforeSearch), propagationLimit = propagations +
\* propagationBudget.
PropagationLimit(s, propagationsBeforeSearch) ==
    s.propagations + s.k_c * (s.propagations - propagationsBeforeSearch)

\* The default search of a step, and the propagation limit of the
\* cubification that follows.
StepSearch ==
    /\ pc = "search"
    /\ \E o \in searchOutcomes(sv, fr.conflictBudget) :
           \E s1 \in {search(sv, fr.conflictBudget, o)} :
               /\ sv' = s1
               /\ fr' = [fr EXCEPT !.status = o.status,
                                   !.propagationsBeforeSearch = sv.propagations,
                                   !.propagationsAfterSearch = s1.propagations,
                                   !.propagationLimit =
                                       IF o.status = l_Undef
                                       THEN PropagationLimit(s1, sv.propagations)
                                       ELSE @]
               /\ pc' = IF CubifyGate(o.status) THEN "cubify" ELSE "cubeGate"
    /\ svLast' = [NoObs EXCEPT !.op = "search"]
    /\ UNCHANGED orig
    /\ UNCHANGED exceptSolver

\* Whether the cubification loop makes another iteration.
CubifyContinues ==
    /\ sv.propagations < fr.propagationLimit
    /\ withinBudget(sv)
    /\ canCubify(sv)

\* One iteration of the cubification loop, with c the literal order the
\* planner's sort leaves and ub the bool read where pruneClause returns none.
StepCubify ==
    /\ pc = "cubify"
    /\ CubifyContinues
    /\ \E c \in cubifyOrders(sv), ub \in BOOLEAN :
           \E r \in {cubifyOne([sv EXCEPT !.cubifications = @ + 1], c, ub)} :
               /\ sv' = IF r.ret # l_Undef THEN [r.s EXCEPT !.exitPoint = 1]
                         ELSE r.s
               /\ fr' = [fr EXCEPT !.status = r.ret]
               /\ pc' = IF r.ret # l_Undef THEN "cubeGate" ELSE "cubify"
               /\ svLast' = [NoObs EXCEPT !.op = "cubify", !.int = r.int,
                                          !.queued = r.queued, !.id = r.id,
                                          !.order = c]
    /\ UNCHANGED orig
    /\ UNCHANGED exceptSolver

\* The cubification loop ends.
StepCubifyEnd ==
    /\ pc = "cubify"
    /\ ~CubifyContinues
    /\ pc' = "cubeGate"
    /\ svLast' = [NoObs EXCEPT !.op = "cubifyEnd"]
    /\ UNCHANGED <<sv, fr, orig>>
    /\ UNCHANGED exceptSolver

\* The gate of the cube search.
StepCubeGate ==
    /\ pc = "cubeGate"
    /\ IF CubeSearchGate(sv, fr.status)
       THEN /\ fr' = [fr EXCEPT !.cube = Cube_new,
                                !.conflicts_limit = sv.conflicts + fr.conflictBudget]
            /\ pc' = "cubeSearch"
       ELSE /\ fr' = fr
            /\ pc' = "simplify"
    /\ svLast' = [NoObs EXCEPT !.op = "cubeGate"]
    /\ UNCHANGED <<sv, orig>>
    /\ UNCHANGED exceptSolver

\* The head of the cube-search loop: the loop condition, withinBudget and
\* pickCube, with rnd the value of irand.
StepPickCube(rnd) ==
    /\ pc = "cubeSearch"
    /\ IF sv.conflicts < fr.conflicts_limit /\ withinBudget(sv)
       THEN LET r == pickCube(sv, fr.cube, rnd)
            IN  /\ fr' = [fr EXCEPT !.cube = r.cube]
                /\ pc' = IF r.ret THEN "cubeBranch" ELSE "simplify"
                /\ svLast' = [NoObs EXCEPT !.op = "pickCube", !.pick = r.ret,
                                           !.cubeIn = fr.cube]
       ELSE /\ fr' = fr
            /\ pc' = "simplify"
            /\ svLast' = [NoObs EXCEPT !.op = "cubeSearchEnd"]
    /\ UNCHANGED <<sv, orig>>
    /\ UNCHANGED exceptSolver

\* The cube of the negated conflict literals.
Reduced(s) == Cube_inverted(s.conflict)

\* The rest of an iteration of the cube-search loop: the search inside the
\* cube picked, with any outcome o, and what follows from its result.
StepCubeBranch ==
    /\ pc = "cubeBranch"
    /\ \E o \in searchCubeBranchOutcomes(sv, fr.cube,
                                        fr.conflicts_limit - sv.conflicts) :
        \E s1 \in {searchCubeBranch(sv, fr.cube,
                                     fr.conflicts_limit - sv.conflicts, o)} :
        LET s2 == [s1 EXCEPT !.cubeRefutations = @ + 1]
        IN  IF o.status = l_True
            THEN /\ sv' = [s1 EXCEPT !.exitPoint = 2]
                 /\ fr' = [fr EXCEPT !.status = l_True]
                 /\ pc' = "simplify"
                 /\ svLast' = [NoObs EXCEPT !.op = "cubeSat"]
            ELSE IF o.status = l_False
            THEN IF s2.conflict = {}
                 THEN /\ sv' = [s2 EXCEPT !.exitPoint = 4]
                      /\ fr' = [fr EXCEPT !.status = l_False]
                      /\ pc' = "simplify"
                      /\ svLast' = [NoObs EXCEPT !.op = "cubeUnsat"]
                 ELSE \E r \in {refuteCube(s2, fr.cube, Reduced(s2))} :
                      /\ sv' = IF r.ret = l_False THEN [r.s EXCEPT !.exitPoint = 3]
                               ELSE r.s
                      /\ fr' = [fr EXCEPT !.status = r.ret]
                      /\ pc' = IF r.ret = l_False THEN "simplify" ELSE "cubeSearch"
                      /\ svLast' = [NoObs EXCEPT !.op = "refute",
                                        !.queued = r.queued, !.id = r.id,
                                        !.reduced = Reduced(s2),
                                        !.level = decisionLevel(s2)]
            ELSE /\ sv' = s1
                 /\ fr' = [fr EXCEPT !.status = l_Undef]
                 /\ pc' = "cubeSearch"
                 /\ svLast' = [NoObs EXCEPT !.op = "cubeUndef"]
    /\ UNCHANGED orig
    /\ UNCHANGED exceptSolver

\* The end of a step: the simplify of a step whose status is still
\* undefined, and the return of the status.
StepSimplify(rm) ==
    /\ pc = "simplify"
    /\ IF SimplifyGate(fr.status)
       THEN \E r \in {simplify(sv, rm)} :
                /\ sv' = IF r.ret THEN r.s ELSE [r.s EXCEPT !.exitPoint = 5]
                /\ fr' = [fr EXCEPT !.status = IF r.ret THEN l_Undef ELSE l_False]
                /\ svLast' = [NoObs EXCEPT !.op = "simplify"]
       ELSE /\ sv' = sv
            /\ fr' = fr
            /\ svLast' = [NoObs EXCEPT !.op = "return"]
    /\ pc' = "stepEnd"
    /\ UNCHANGED orig
    /\ UNCHANGED exceptSolver

\* Whether the restart loop of interleavedSolveInternal makes another step.
RestartContinues == withinBudget(sv) /\ fr.status = l_Undef

\* The restart loop goes on to its next step.
NextRestart ==
    /\ pc = "stepEnd"
    /\ RestartContinues
    /\ fr.curr_restarts + 1 < MaxRestarts
    /\ fr' = [fr EXCEPT !.curr_restarts = @ + 1,
                        !.conflictBudget = StepBudget(fr.curr_restarts + 1)]
    /\ pc' = "search"
    /\ svLast' = [NoObs EXCEPT !.op = "restart"]
    /\ UNCHANGED <<sv, orig>>
    /\ UNCHANGED exceptSolver

\* interleavedSolveInternal after the restart loop.
Finish ==
    /\ pc = "stepEnd"
    /\ ~RestartContinues
    /\ sv' = cancelUntil(IF fr.status = l_False /\ Cardinality(sv.conflict) = 0
                         THEN [sv EXCEPT !.ok = FALSE] ELSE sv, 0)
    /\ pc' = "done"
    /\ svLast' = [NoObs EXCEPT !.op = "finish"]
    /\ UNCHANGED <<fr, orig>>
    /\ UNCHANGED exceptSolver

(***************************************************************************)
(* The clause database on its own: clauses are added, dropped and          *)
(* simplified away at level 0, outside a run.                              *)
(***************************************************************************)
MaxDbClauses == 3   \* the clause vector holds at most MaxDbClauses clauses
MaxDbIds     == 4   \* at most MaxDbIds persistent ids are handed out

\* The clauses added to the database.
DbClauses == {{0, 2}, {1, 2}, {2, 4}, {1, 4}, {1}}

\* Solver::addClause_ of the clause ps, its variables created first.
DbAddClause(ps) ==
    /\ pc = "ready"
    /\ sv.ok
    /\ Len(sv.clauses) < MaxDbClauses
    /\ sv.bi.next_free_index < MaxDbIds
    /\ sv' = AddClauses(sv, <<ps>>)
    /\ svLast' = [NoObs EXCEPT !.op = "addClause"]
    /\ UNCHANGED <<pc, fr, orig>>
    /\ UNCHANGED exceptSolver

\* CubifyingSolverBase::dropClause(i), for a slot i of the clause vector.
DbDropClause(i) ==
    /\ pc = "ready"
    /\ i < Len(sv.clauses)
    /\ sv' = dropClause(sv, i)
    /\ svLast' = [NoObs EXCEPT !.op = "dropClause", !.slot = i]
    /\ UNCHANGED <<pc, fr, orig>>
    /\ UNCHANGED exceptSolver

\* Solver::simplify with the removal of the satisfied clauses.
DbSimplify ==
    /\ pc = "ready"
    /\ sv.ok
    /\ sv' = simplify(sv, TRUE).s
    /\ svLast' = [NoObs EXCEPT !.op = "simplify"]
    /\ UNCHANGED <<pc, fr, orig>>
    /\ UNCHANGED exceptSolver

\* CubifyingSolver::bootstrap on the database as it stands, before anything
\* is propagated: the id of every clause is queued for cubification.
DbBootstrap ==
    /\ pc = "ready"
    /\ sv.cubifyQueue = <<>>
    /\ sv.propagations = 0
    /\ sv' = bootstrap(sv)
    /\ svLast' = [NoObs EXCEPT !.op = "bootstrap"]
    /\ UNCHANGED <<pc, fr, orig>>
    /\ UNCHANGED exceptSolver

\* One call of CubifyingSolver::cubifyOne at level 0; the verdict is kept in
\* the frame's status.
DbCubifyOne ==
    /\ pc = "ready"
    /\ sv.ok
    /\ \E c \in cubifyOrders(sv), ub \in BOOLEAN :
           \E r \in {cubifyOne(sv, c, ub)}, n \in {cubifyNext(sv)} :
               /\ sv' = r.s
               /\ fr' = [fr EXCEPT !.status = r.ret]
               /\ svLast' = [NoObs EXCEPT !.op = "cubifyOne", !.int = r.int,
                                          !.queued = r.queued, !.id = r.id,
                                          !.order = c, !.slot = n.i,
                                          !.popped = Len(sv.cubifyQueue)
                                                     - Len(n.s.cubifyQueue)]
    /\ UNCHANGED <<pc, orig>>
    /\ UNCHANGED exceptSolver

(***************************************************************************)
(* The cubification loop on its own: the loop of phase 2 entered with a    *)
(* propagation limit that is never reached, on a database from which       *)
(* clauses were dropped before or after bootstrap queued their ids.        *)
(***************************************************************************)
MaxCubifications == 12   \* the loop is followed for MaxCubifications iterations
MaxLoopDrops     == 2    \* clauses dropped before the loop

\* The loop of phase 2 is entered.
CubifyLoopStart ==
    /\ pc = "ready"
    /\ sv.ok
    /\ fr' = [NoFrame EXCEPT !.propagationLimit = INT_MAX]
    /\ pc' = "cubify"
    /\ svLast' = [NoObs EXCEPT !.op = "cubifyStart"]
    /\ UNCHANGED <<sv, orig>>
    /\ UNCHANGED exceptSolver

\* dropClause(i) before the loop, at most MaxLoopDrops times.
LoopDropClause(i) ==
    /\ sv.bi.next_free_index - Len(sv.clauses) < MaxLoopDrops
    /\ DbDropClause(i)

\* One iteration of the loop of phase 2.
CubifyLoopStep ==
    /\ sv.cubifications < MaxCubifications
    /\ StepCubify

(***************************************************************************)
(* The path planner on its own: makeCubifyPath reads the CubeQueue and the *)
(* CubeIndex of the solver and changes neither.  Cubes enter the CubeQueue *)
(* as cubifyInternal pushes them and the CubeIndex as cubify and           *)
(* refuteCube mark them; the planner is then run on a literal order.       *)
(***************************************************************************)
MaxPlanVar == 3   \* the literal orders are over the variables 0 .. MaxPlanVar - 1
MaxPlanCq  == 2   \* cubes in the CubeQueue
MaxPlanCi  == 1   \* cubes marked in the CubeIndex

PlanLits == {2 * v : v \in 0 .. (MaxPlanVar - 1)}

\* The cubes a root over PlanLits has below it.
PlanCubes == {CubeOf(S) : S \in (SUBSET PlanLits) \ {{}, PlanLits}}

\* The literal orders of the roots over PlanLits: two literals or more, each
\* one once.
PlanOrders ==
    UNION {Arrangements(CubeOf(S)) :
              S \in {T \in SUBSET PlanLits : Cardinality(T) >= 2}}

\* The cubes marked in the CubeIndex t.
CubeIndex_marked(t) ==
    UNION {{Append(path, x) : x \in t[path]} : path \in DOMAIN t}

\* cq.push(cube, score, id) as cubifyInternal makes it, for a score above 1.
PlanCqPush(cube) ==
    /\ pc = "ready"
    /\ ~CubeQueue_contains(sv.cq, cube)
    /\ CubeQueue_size(sv.cq) < MaxPlanCq
    /\ sv' = [sv EXCEPT !.cq = CubeQueue_push(@, cube, 2 * ScoreUnit, 0)]
    /\ svLast' = [NoObs EXCEPT !.op = "cqPush"]
    /\ UNCHANGED <<pc, fr, orig>>
    /\ UNCHANGED exceptSolver

\* ci.push(post) as cubify makes it, for a cube of two literals or more.
PlanCiPush(cube) ==
    /\ pc = "ready"
    /\ Cube_size(cube) >= 2
    /\ ~CubeIndex_contains(sv.ci, cube, 0)
    /\ Cardinality(CubeIndex_marked(sv.ci)) < MaxPlanCi
    /\ sv' = [sv EXCEPT !.ci = CubeIndex_push(@, cube, 0)]
    /\ svLast' = [NoObs EXCEPT !.op = "ciPush"]
    /\ UNCHANGED <<pc, fr, orig>>
    /\ UNCHANGED exceptSolver

\* makeCubifyPath(C, path) on an empty path.
PlanPath(C) ==
    /\ pc = "ready"
    /\ \E m \in {makeCubifyPath(sv, C)} :
           svLast' = [NoObs EXCEPT !.op = "plan", !.order = C,
                                   !.int = [NoInternal EXCEPT !.planned = m.ret,
                                                             !.path = m.path]]
    /\ UNCHANGED <<sv, pc, fr, orig>>
    /\ UNCHANGED exceptSolver

(***************************************************************************)
(* Specifications.  Each one drives one data structure through its public  *)
(* methods, starting from the freshly constructed object.                  *)
(***************************************************************************)
InitBimap ==
    /\ bi = Bimap_new
    /\ bmLast = NoCall
    /\ bmIssued = <<>>
    /\ bmPending = {}
    /\ bmCommitted = {}

InitCubeQueue(budgets) ==
    /\ \E budget \in budgets : cq = CubeQueue_new(budget)
    /\ cqLast = NoCqCall
    /\ cqHist = [calls |-> 0, n |-> 0, sum |-> 0]
    /\ cqOrder = <<>>

InitCubeIndex ==
    /\ ci = CubeIndex_new
    /\ ciPushed = {}
    /\ ciLast = [op |-> "none", cube |-> NoCube, rep |-> FALSE]
    /\ ciBefore = CubeIndex_new

InitCube ==
    /\ cubes = [k \in 1 .. 2 |-> Cube_new]
    /\ cuSet = [k \in 1 .. 2 |-> {}]
    /\ cuLast = NoCuCall
    /\ cuBefore = Cube_new

\* The problems given to the solver, over the literals x = 0, y = 2, z = 4,
\* w = 6, u = 8 and their negations 1, 3, 5, 7, 9:
\*   two clauses that strengthen each other to one that subsumes both;
\*   a cube {x} that propagates y and has no model, in a satisfiable problem;
\*   a wide clause next to an implied unit that unit propagation misses;
\*   a clause whose subcubes {x}, {x, y}, ... get different scores.
Problems ==
    { <<{1, 3, 5}, {1, 3, 4}>>,
      <<{1, 4, 6}, {1, 4, 7}, {1, 5, 6}, {1, 5, 7}, {1, 2}>>,
      <<{1, 2}, {1, 3}, {0, 2, 4, 6}>>,
      <<{1, 6}, {1, 3, 5}>> }

\* An unsatisfiable problem, in which the cube {x} propagates y and has no
\* model, and the side of ~x has none either.
UnsatProblems ==
    { <<{0, 4, 6}, {0, 4, 7}, {0, 5, 6}, {0, 5, 7},
        {1, 4, 6}, {1, 4, 7}, {1, 5, 6}, {1, 5, 7}, {1, 2}>> }

\* A satisfiable problem, in which the cube {x, y} propagates u and has no
\* model.
WideProblems ==
    { <<{1, 3, 4, 6}, {1, 3, 4, 7}, {1, 3, 5, 6}, {1, 3, 5, 7}, {1, 3, 8}>> }

\* The option values the solver is constructed with.
Configs ==
    [k_t : {KtDen * k : k \in 1 .. MaxKt}, k_c : {1},
     maxCubifiableSize : {2, 3},
     alwaysSearchCube : BOOLEAN]

\* A satisfiable problem, in which the cubes {x, u} and {x, -u} propagate y
\* and x has no model.
SharedProblems ==
    { <<{1, 4, 6}, {1, 4, 7}, {1, 5, 6}, {1, 5, 7}, {1, 9, 2}, {1, 8, 2}>> }

\* A satisfiable problem over x, y, w, u, in which the cube {x, y} has no
\* model and a clause of four literals holds both -x and -y.
SubsumedProblems ==
    { <<{3, 6}, {1, 3, 7, 9}, {1, 3, 7}>> }

\* The option record under which the last four kinds of problem are run:
\* the density threshold is kt / KtDen, clauses of up to size literals are
\* cubified, and cubes are searched before cubification is complete.
SearchConfigs(kt, size) ==
    {[k_t |-> kt, k_c |-> 1, maxCubifiableSize |-> size,
      alwaysSearchCube |-> TRUE]}

\* The solver constructed with one of the option records cfgs and loaded
\* with one of the problems.
InitSolver(problems, cfgs) ==
    /\ \E P \in problems, cfg \in cfgs :
           /\ sv = AddClauses(Solver_new(cfg), P)
           /\ orig = Range(P)
    /\ pc = "ready"
    /\ fr = NoFrame
    /\ svLast = NoObs

\* The solver left idle, with no problem.
InitIdle ==
    InitSolver({<<>>}, {[k_t |-> KtDen, k_c |-> 1, maxCubifiableSize |-> 2,
                        alwaysSearchCube |-> TRUE]})

Init ==
    InitBimap /\ InitCubeQueue({MaxBudget}) /\ InitCubeIndex /\ InitCube /\ InitIdle

\* add, drop and swap only.
NextBimapBasic ==
    \/ \E i \in SlotsBasic : BimapAdd(i)
    \/ \E i \in SlotsBasic : BimapDrop(i)
    \/ \E i, j \in SlotsBasic : BimapSwap(i, j)

SpecBimapBasic == Init /\ [][NextBimapBasic]_vars

\* All five mutators of the Bimap.
NextBimap ==
    \/ \E i \in Slots : BimapAdd(i)
    \/ \E i \in Slots : BimapDrop(i)
    \/ \E i, j \in Slots : BimapSwap(i, j)
    \/ \E i, j \in Slots : BimapWillMove(i, j)
    \/ BimapFlipBuffer

SpecBimap == Init /\ [][NextBimap]_vars

InitQueue ==
    InitBimap /\ InitCubeQueue(Budgets) /\ InitCubeIndex /\ InitCube /\ InitIdle

NextCubeQueue ==
    \/ \E cube \in CqCubes, score \in Scores, pid \in Pids : CqPush(cube, score, pid)
    \/ \E cube \in CqCubes : CqPop(cube)

SpecCubeQueue == InitQueue /\ [][NextCubeQueue]_vars

\* The queue under every budget from 1 on.
InitQueueFromOne ==
    InitBimap /\ InitCubeQueue(1 .. MaxBudget) /\ InitCubeIndex /\ InitCube
              /\ InitIdle

SpecCubeQueueFromOne == InitQueueFromOne /\ [][NextCubeQueue]_vars

NextCubeIndex ==
    \/ \E cube \in CiCubes : CiPush(cube)
    \/ \E cube \in CiCubes : CiPop(cube)

SpecCubeIndex == Init /\ [][NextCubeIndex]_vars

NextCube ==
    \/ \E k \in 1 .. 2, L \in CuLits : CubePush(k, L)
    \/ \E k \in 1 .. 2, L \in CuLits : CubePop(k, L)
    \/ \E k \in 1 .. 2 : CubeClear(k)
    \/ \E k \in 1 .. 2 : CubePlus(k)

SpecCube == Init /\ [][NextCube]_vars

\* Cubes built by push and pop, and checked by sane.
NextCubeSane ==
    \/ \E k \in 1 .. 2, L \in CuLits : CubePush(k, L)
    \/ \E k \in 1 .. 2, L \in CuLits : CubePop(k, L)
    \/ \E k \in 1 .. 2 : CubeSane(k)

SpecCubeSane == Init /\ [][NextCubeSane]_vars

\* interleavedSolve on each problem under each option record.
InitSolve ==
    /\ InitBimap /\ InitCubeQueue({MaxBudget}) /\ InitCubeIndex /\ InitCube
    /\ \/ InitSolver(Problems, Configs)
       \/ InitSolver(UnsatProblems, SearchConfigs(KtDen, 2))
       \/ InitSolver(WideProblems, SearchConfigs(KtDen, 3))
       \/ InitSolver(SharedProblems, SearchConfigs(1, 3))
       \/ InitSolver(SubsumedProblems, SearchConfigs(KtDen, 4))

NextSolve ==
    \/ Solve
    \/ StepSearch
    \/ StepCubify
    \/ StepCubifyEnd
    \/ StepCubeGate
    \/ \E rnd \in Rnds : StepPickCube(rnd)
    \/ StepCubeBranch
    \/ \E rm \in BOOLEAN : StepSimplify(rm)
    \/ NextRestart
    \/ Finish

SpecSolve == InitSolve /\ [][NextSolve]_vars

NextDb ==
    \/ \E ps \in DbClauses : DbAddClause(ps)
    \/ \E i \in 0 .. (MaxDbClauses - 1) : DbDropClause(i)
    \/ DbSimplify

SpecDb == Init /\ [][NextDb]_vars

\* The database with its cubification queue: clauses are added and dropped,
\* the queue is filled by bootstrap and emptied by cubifyOne.
NextCubifyOne ==
    \/ \E ps \in DbClauses : DbAddClause(ps)
    \/ \E i \in 0 .. (MaxDbClauses - 1) : DbDropClause(i)
    \/ DbBootstrap
    \/ DbCubifyOne

SpecCubifyOne == Init /\ [][NextCubifyOne]_vars

\* The cubification loop from every database and queue that drops and
\* bootstrap leave of the problems.
NextCubifyLoop ==
    \/ \E i \in 0 .. (MaxDbClauses - 1) : LoopDropClause(i)
    \/ DbBootstrap
    \/ CubifyLoopStart
    \/ CubifyLoopStep
    \/ StepCubifyEnd

\* The condition under which an iteration of the loop can run: ENABLED
\* <<CubifyLoopStep>>_vars, written out.
CubifyLoopStepEnabled ==
    pc = "cubify" /\ CubifyContinues /\ sv.cubifications < MaxCubifications

\* The loop is sequential code: an iteration that can run does run, and
\* the loop is left when its condition fails.  The second conjunct is
\* WF_vars(CubifyLoopStep) with its ENABLED written out.
SpecCubifyLoop ==
    /\ InitSolve
    /\ [][NextCubifyLoop]_vars
    /\ ([]<>(~CubifyLoopStepEnabled) \/ []<><<CubifyLoopStep>>_vars)
    /\ WF_vars(StepCubifyEnd)

\* The planner on every literal order, under every small CubeQueue and
\* CubeIndex.
NextPlanner ==
    \/ \E cube \in PlanCubes : PlanCqPush(cube)
    \/ \E cube \in PlanCubes : PlanCiPush(cube)
    \/ \E C \in PlanOrders : PlanPath(C)

SpecPlanner == Init /\ [][NextPlanner]_vars

(***************************************************************************)
(* Properties of the Bimap.                                                *)
(***************************************************************************)

\* C1: after any sequence of add, drop and swap calls that respect their
\* preconditions, bw(i) = j exactly when fw(j) = i, for every slot i and
\* every id j >= 0; the slot just dropped has bw = -1 and the id it held has
\* fw = -1.
BimapBijection ==
    /\ \A i \in 0 .. MaxSlotBasic, j \in 0 .. MaxIds :
           (Bimap_bw(bi, i) = j) <=> (Bimap_fw(bi, j) = i)
    /\ bmLast.op = "drop" =>
           Bimap_bw(bi, bmLast.a) = -1 /\ Bimap_fw(bi, bmLast.ret) = -1

\* C1 witness: a swap was just made on two live slots after an earlier id
\* was dropped.
BimapBijectionWitness ==
    /\ bmLast.op = "swap"
    /\ Len(bmIssued) = 3
    /\ \E p \in Range(bmIssued) : Bimap_fw(bi, p) = -1
    /\ Bimap_bw(bi, 0) > Bimap_bw(bi, 1)
    /\ Bimap_bw(bi, 1) >= 0

\* C2: every add returns an id that no earlier add returned, and an id
\* resolves (via fw) only to a slot that holds this very id, so an id whose
\* clause was dropped never resolves to another clause.
IdsNeverReused ==
    /\ \A m, n \in 1 .. Len(bmIssued) : m < n => bmIssued[m] # bmIssued[n]
    /\ \A p \in Range(bmIssued) :
           Bimap_fw(bi, p) >= 0 => Bimap_bw(bi, Bimap_fw(bi, p)) = p

\* C2 witness: an add was just made, after a flip_buffer that left a free
\* slot and after the first id was dropped; the two later ids are live.
IdsNeverReusedWitness ==
    /\ bmLast.op = "add"
    /\ Len(bmIssued) = 3
    /\ Bimap_fw(bi, bmIssued[1]) = -1
    /\ Bimap_fw(bi, bmIssued[2]) >= 0
    /\ Bimap_fw(bi, bmIssued[3]) >= 0
    /\ -1 \in DOMAIN bi.ptt

\* No two moves of the batch share a target slot or a moved id.
InjectiveBatch(M) == \A m, n \in M : m # n => (m.j # n.j /\ m.p # n.p)

\* C3: after a batch of will_move(i, j) calls followed by flip_buffer(),
\* every recorded move of id p to slot j has fw(p) = j and bw(j) = p, every
\* slot that received no move has bw = -1, and fw(x) = -1 for every x that is
\* not the id of a moved clause, the free-slot marker -1 included.
FlipCommitsBatch ==
    (bmLast.op = "flip_buffer" /\ InjectiveBatch(bmCommitted)) =>
        /\ \A m \in bmCommitted :
               Bimap_fw(bi, m.p) = m.j /\ Bimap_bw(bi, m.j) = m.p
        /\ \A i \in 0 .. MaxSlot :
               (\A m \in bmCommitted : m.j # i) => Bimap_bw(bi, i) = -1
        /\ \A x \in -1 .. MaxIds :
               (\A m \in bmCommitted : m.p # x) => Bimap_fw(bi, x) = -1

\* C4: a will_move call changes neither bw nor fw, for any slot and any id.
WillMoveKeepsMaps ==
    [][bmLast'.op = "will_move" =>
           /\ \A i \in -1 .. MaxSlot : Bimap_bw(bi', i) = Bimap_bw(bi, i)
           /\ \A j \in -1 .. MaxIds : Bimap_fw(bi', j) = Bimap_fw(bi, j)]_vars

\* C4 witness: two moves are pending and the maps do not show one of them.
WillMoveKeepsMapsWitness ==
    /\ bmLast.op = "will_move"
    /\ Cardinality(bmPending) = 2
    /\ \E m \in bmPending :
           Bimap_bw(bi, m.j) # m.p /\ Bimap_fw(bi, m.p) # m.j

(***************************************************************************)
(* Properties of the CubeQueue.                                            *)
(***************************************************************************)

\* The number of positions of v that hold x.
Count(v, x) == Cardinality({k \in 1 .. Len(v) : v[k] = x})

\* The sizes of the buckets of sw under the keys K, added up.
RECURSIVE BucketTotal(_, _)
BucketTotal(sw, K) ==
    IF K = {} THEN 0
    ELSE LET t == CHOOSE t \in K : TRUE
         IN  Len(sw[t]) + BucketTotal(sw, K \ {t})

\* C5: every cube of the primary map occurs exactly once in the bucket of
\* its recorded score and in no other bucket, no bucket is empty, the bucket
\* sizes sum to the size of the primary map, and the size is at most budget.
CubeQueueConsistent ==
    LET imp == cq.implicants
        sw  == cq.scorewise
    IN  /\ \A c \in DOMAIN imp :
               /\ imp[c][1] \in DOMAIN sw
               /\ \A t \in DOMAIN sw :
                      Count(sw[t], c) = IF t = imp[c][1] THEN 1 ELSE 0
        /\ \A t \in DOMAIN sw : sw[t] # <<>>
        /\ BucketTotal(sw, DOMAIN sw) = Cardinality(DOMAIN imp)
        /\ CubeQueue_size(cq) <= cq.budget

\* C5 witness: a push has just evicted a cube from a queue of two or more.
CubeQueueConsistentWitness ==
    /\ cqLast.op = "push"
    /\ cqLast.evicted # NoCube
    /\ CubeQueue_size(cq) >= 2

\* C6: a push of a cube that is not present evicts nothing from a queue
\* holding fewer than budget cubes, and evicts one cube, then inserts, when
\* the queue holds exactly budget cubes.
EvictOnlyOverBudget ==
    (cqLast.op = "push" /\ ~cqLast.present) =>
        IF cqLast.sizeBefore < cq.budget
        THEN cqLast.evicted = NoCube /\ CubeQueue_size(cq) = cqLast.sizeBefore + 1
        ELSE cqLast.evicted # NoCube /\ CubeQueue_size(cq) = cqLast.sizeBefore

\* C7: numSeen is the number of pushes that inserted a cube not present at
\* that moment and sumScore is the sum of their scores.
RollingMean ==
    /\ cq.numSeen = cqHist.n
    /\ cq.sumScore = cqHist.sum

\* C7 witness: a push of a cube already present, after a cube that was
\* inserted has left the queue.
RollingMeanWitness ==
    /\ cqLast.op = "push"
    /\ cqLast.present
    /\ cqHist.n > CubeQueue_size(cq)

\* C8: a push of a cube already in the queue appends the parent id unless
\* it is there; the score, the buckets, the size, the other entries,
\* sumScore and numSeen stay, nothing is evicted and the parent set has no
\* duplicate.
PushPresentFrame ==
    [][(cqLast'.op = "push" /\ cqLast'.present) =>
           LET c  == cqLast'.cube
               ps == cq.implicants[c][2]
               qs == cq'.implicants[c][2]
           IN  /\ DOMAIN cq'.implicants = DOMAIN cq.implicants
               /\ \A d \in DOMAIN cq.implicants \ {c} :
                      cq'.implicants[d] = cq.implicants[d]
               /\ cq'.implicants[c][1] = cq.implicants[c][1]
               /\ cq'.scorewise = cq.scorewise
               /\ cq'.sumScore = cq.sumScore
               /\ cq'.numSeen = cq.numSeen
               /\ cq'.budget = cq.budget
               /\ cqLast'.evicted = NoCube
               /\ qs = IF cqLast'.pid \in Range(ps) THEN ps
                       ELSE Append(ps, cqLast'.pid)
               /\ \A m, n \in 1 .. Len(qs) : m < n => qs[m] # qs[n]]_vars

\* C8 witness: a push of a cube already present has added a second parent.
PushPresentFrameWitness ==
    /\ cqLast.op = "push"
    /\ cqLast.present
    /\ Len(CubeQueue_getParentInds(cq, cqLast.cube)) = 2

\* The cubes present whose recorded score is s, in order of insertion.
InsertedWithScore(s) == SelectSeq(cqOrder, LAMBDA c : cq.implicants[c][1] = s)

\* The recorded scores of the cubes present.
ScoresPresent == {cq.implicants[c][1] : c \in DOMAIN cq.implicants}

CubeIndexIsSet ==
    \A C \in CiCubes : CubeIndex_contains(ci, C, 0) <=> (C \in ciPushed)

\* C10 witness: an extension of an indexed cube was just popped, and a
\* strict prefix of that cube is not indexed.
CubeIndexIsSetWitness ==
    /\ ciLast.op = "pop"
    /\ ciLast.cube = <<0, 1, 2>>
    /\ <<0, 1>> \in ciPushed
    /\ <<0>> \notin ciPushed
    /\ <<0, 1>> \in DOMAIN ci

\* C11: push(C) followed at once by pop(C) leaves contains(D), for every
\* cube D, as it was before the push; a second push(C) right after a push(C)
\* leaves contains(D) as the first push left it.
PushPopRestores ==
    ciLast.rep =>
        \A D \in CiCubes :
            CubeIndex_contains(ci, D, 0) <=> CubeIndex_contains(ciBefore, D, 0)

\* C11 amended: push(C) followed at once by pop(C) leaves contains(D) as it
\* was before the push for every cube D other than C, and contains(C) false,
\* which is its value before the push exactly when C was not in the index
\* then; a second push(C) right after a push(C) changes no contains(D).
PushPopRestoresOthers ==
    ciLast.rep =>
        \A D \in CiCubes :
            IF ciLast.op = "pop" /\ D = ciLast.cube
            THEN ~CubeIndex_contains(ci, D, 0)
            ELSE CubeIndex_contains(ci, D, 0) <=> CubeIndex_contains(ciBefore, D, 0)

\* C11 witness: <<0, 1>> was pushed and popped at once, in an index that
\* held it before the push and holds its prefix and an extension.
PushPopRestoresWitness ==
    /\ ciLast.op = "pop"
    /\ ciLast.rep
    /\ ciLast.cube = <<0, 1>>
    /\ CubeIndex_contains(ciBefore, <<0, 1>>, 0)
    /\ CubeIndex_contains(ci, <<0>>, 0)
    /\ CubeIndex_contains(ci, <<0, 1, 2>>, 0)

(***************************************************************************)
(* Properties of the Cube.                                                 *)
(***************************************************************************)

\* C12: push(L) followed at once by pop(L) leaves a cube equal to the cube
\* before the push, for every cube and every literal L.
CubePushPopRestores ==
    (cuLast.op = "pop" /\ cuLast.rep) => cubes[cuLast.k] = cuBefore

\* C12 amended: push(L) followed at once by pop(L) leaves the cube before
\* the push without L: a cube equal to it when it did not contain L, and
\* the cube with L removed when it did.
CubePushPopRemoves ==
    (cuLast.op = "pop" /\ cuLast.rep) =>
        /\ cubes[cuLast.k] = SelectSeq(cuBefore, LAMBDA x : x # cuLast.L)
        /\ ~Cube_contains(cuBefore, cuLast.L) => cubes[cuLast.k] = cuBefore

\* C12 witness: literal 1 was pushed between two others and popped at once.
CubePushPopRemovesWitness ==
    /\ cuLast.op = "pop"
    /\ cuLast.rep
    /\ cuLast.L = 1
    /\ cuBefore = <<0, 2>>
    /\ cubes[cuLast.k] = <<0, 2>>

\* C13: the literal sequence of a cube is strictly ascending and holds
\* exactly the literals pushed (by push or by a union) and not popped or
\* cleared since.
CubeAscending ==
    \A k \in 1 .. 2 :
        /\ \A m, n \in 1 .. Len(cubes[k]) : m < n => cubes[k][m] < cubes[k][n]
        /\ Range(cubes[k]) = cuSet[k]

\* C13 witness: a union has just pushed the literals 0 and 2 of the other
\* cube into a cube that held 1.
CubeAscendingWitness ==
    /\ cuLast.op = "plus"
    /\ cubes[cuLast.k] = <<0, 1, 2>>
    /\ cubes[3 - cuLast.k] = <<0, 2>>

(***************************************************************************)
(* Properties of the cubifying solver.                                     *)
(***************************************************************************)

\* C14: cubifyInternal, entered at decision level L0, returns at decision
\* level L0 on every path (the planner returning false, the normal end of
\* the path, a literal found false or true, a conflict from propagation),
\* and while it runs the decision level is never below L0: the loop never
\* pops an empty stack and never cancels below the level of entry.
CubifyInternalRestoresLevel ==
    (svLast.op = "cubify" /\ svLast.int.called) =>
        /\ svLast.int.level1 = svLast.int.level0
        /\ svLast.int.lowest >= svLast.int.level0
        /\ ~svLast.int.underflow

\* A call of cubifyInternal that left its path at a conflict, returning a
\* cube other than the root, has come back to the level of entry.
CubifyInternalRestoresLevelWitness ==
    /\ svLast.op = "cubify" /\ svLast.int.called /\ svLast.int.planned
    /\ svLast.int.post # svLast.int.root
    /\ Len(svLast.int.path) > 0
    /\ svLast.int.level1 = svLast.int.level0

\* C15: pickCube returns true only when the queue is not empty and
\* bestScore() >= k_t * meanScore(); the cube it then hands out is a cube of
\* the queue whose recorded score is the highest one, and the queue is as it
\* was before the call; when it returns false the cube argument is as
\* it was before the call.
PickCubeGate ==
    [][(pc = "cubeSearch" /\ svLast'.op = "pickCube") =>
          /\ svLast'.pick =>
                /\ ~CubeQueue_empty(sv.cq)
                /\ CubeQueue_bestScore(sv.cq) * sv.cq.numSeen * KtDen
                       >= sv.k_t * sv.cq.sumScore
                /\ CubeQueue_contains(sv.cq, fr'.cube)
                /\ \A c \in DOMAIN sv.cq.implicants :
                       sv.cq.implicants[c][1] <= sv.cq.implicants[fr'.cube][1]
                /\ sv'.cq = sv.cq
          /\ ~svLast'.pick => fr'.cube = fr.cube]_vars

\* pickCube has returned true on a queue that holds cubes of different
\* scores.
PickCubeGateWitness ==
    /\ svLast.op = "pickCube" /\ svLast.pick
    /\ CubeQueue_contains(sv.cq, fr.cube)
    /\ \E c \in DOMAIN sv.cq.implicants :
           sv.cq.implicants[c][1] < sv.cq.implicants[fr.cube][1]

\* C16: whenever interleavedSolve, called without user assumptions, returns
\* UNSAT, the ok flag of the solver is false afterwards, whichever restart
\* iteration and phase produced the verdict and whatever earlier cube
\* searches of the run left in the conflict vector.
UnsatClearsOk ==
    (pc = "done" /\ fr.status = l_False) => ~sv.ok

\* C17: in every state of a run, every clause of the database and every
\* literal on the trail at level 0 is a logical consequence of the original
\* problem: each total assignment that satisfies the original clauses
\* satisfies them too.  Unit propagation is modelled exactly.
ClauseDatabaseSound ==
    \A A \in ModelsOf(orig, {}) :
        /\ \A k \in 1 .. Len(sv.clauses) : sv.clauses[k] \cap A # {}
        /\ Level0(sv) \subseteq A

\* cubify has replaced a clause of a satisfiable problem by a new clause,
\* or refuteCube has added the negation of a reduced cube to one.
ClauseDatabaseSoundWitness ==
    /\ ModelsOf(orig, {}) # {}
    /\ \/ /\ svLast.op = "cubify" /\ svLast.queued >= 0
          /\ \E k \in 1 .. Len(sv.clauses) : sv.clauses[k] \notin orig
       \/ /\ svLast.op = "refute" /\ svLast.queued >= 0
          /\ Cube_invert(svLast.reduced) \in Range(sv.clauses)
          /\ Cube_invert(svLast.reduced) \notin orig

\* The persistent ids of the live clauses of the solver s.
LiveIds(s) == {j \in DOMAIN s.bi.ptt : j >= 0 /\ Bimap_fw(s.bi, j) >= 0}

\* The clause with the live persistent id j.
ClauseOfId(s, j) == s.clauses[Bimap_fw(s.bi, j) + 1]

\* The clause is in the database of s: in the clause vector or, a unit, on
\* the trail at level 0.
InDatabase(s, clause) ==
    \/ clause \in Range(s.clauses)
    \/ Cardinality(clause) = 1 /\ clause \subseteq Level0(s)

\* C18: when the search inside the cube B returns UNSAT with a non-empty
\* conflict whose negation is R, then cubeRefutations has grown by one, B
\* is no longer in the CubeQueue, the live clauses whose persistent id was
\* a parent of B are deleted and no other clause is, the clause not-R is in
\* the database and R is marked in the CubeIndex; not-R is added now unless
\* R was in the CubeIndex before.
RefutationProtocol ==
    [][(pc = "cubeBranch" /\ svLast'.op = "refute") =>
          LET B       == fr.cube
              R       == svLast'.reduced
              parents == Range(CubeQueue_getParentInds(sv.cq, B))
          IN  /\ sv'.cubeRefutations = sv.cubeRefutations + 1
              /\ ~CubeQueue_contains(sv'.cq, B)
              /\ \A j \in LiveIds(sv) :
                     IF j \in parents THEN j \notin LiveIds(sv')
                     ELSE /\ j \in LiveIds(sv')
                          /\ ClauseOfId(sv', j) = ClauseOfId(sv, j)
              /\ InDatabase(sv', Cube_invert(R))
              /\ CubeIndex_contains(sv'.ci, R, 0)
              /\ CubeIndex_contains(sv.ci, R, 0) =>
                     /\ LiveIds(sv') \subseteq LiveIds(sv)
                     /\ Level0(sv') = Level0(sv)
              /\ ~CubeIndex_contains(sv.ci, R, 0) =>
                     \/ LiveIds(sv') \ LiveIds(sv) # {}
                     \/ Level0(sv') # Level0(sv)
                     \/ Cube_invert(R) \subseteq Level0(sv)]_vars

\* A cube of two literals has been refuted: its parent clause is deleted
\* and the negation of the reduced cube is a new clause of the database.
RefutationProtocolWitness ==
    /\ svLast.op = "refute"
    /\ Len(svLast.reduced) > 1
    /\ svLast.id >= 0
    /\ ClauseOfId(sv, svLast.id) = Cube_invert(svLast.reduced)
    /\ Len(sv.clauses) = Cardinality(orig)

\* C19: whenever cubify or refuteCube adds a new clause and enqueues it for
\* cubification, the value pushed onto cubifyQueue is the persistent id the
\* Bimap gave that clause, so that fw of it is the slot of the new clause.
CubifyQueueHoldsIds ==
    (svLast.op \in {"cubify", "refute"} /\ svLast.queued >= 0 /\ svLast.id >= 0)
        => /\ svLast.queued = svLast.id
           /\ Bimap_fw(sv.bi, svLast.queued) = Bimap_fw(sv.bi, svLast.id)

\* The phase of a step an operation belongs to: 1 the search, 2 the
\* cubification, 3 the cube search, 4 simplify and the return; 0 outside.
Phase(op) ==
    CASE op = "search" -> 1
      [] op \in {"cubify", "cubifyEnd", "cubeGate"} -> 2
      [] op \in {"pickCube", "cubeSearchEnd", "cubeSat", "cubeUnsat", "refute",
                 "cubeUndef"} -> 3
      [] op \in {"simplify", "return"} -> 4
      [] OTHER -> 0

\* C20: within one interleavedSolveStep the phases run in the order search,
\* cubify, cube search, simplify; cubifyOne is called only if the search
\* returned Undef; the cube-search loop is entered only if the status is
\* still Undef and (alwaysSearchCube or not canCubify()); simplify is called
\* only if the status is still Undef, and a failed simplify makes the step
\* return UNSAT; once a phase has given a SAT or UNSAT verdict no later
\* phase touches the solver and the verdict is what the step returns.
StepPhaseOrder ==
    [][(pc \in {"search", "cubify", "cubeGate", "cubeSearch", "cubeBranch",
                "simplify"}) =>
          /\ Phase(svLast'.op) >= Phase(svLast.op)
          /\ svLast'.op = "cubify" =>
                 fr.status = l_Undef /\ Phase(svLast.op) \in {1, 2}
          /\ (pc = "cubeGate" /\ pc' = "cubeSearch") =>
                 /\ fr.status = l_Undef
                 /\ sv.alwaysSearchCube \/ ~canCubify(sv)
          /\ Phase(svLast'.op) = 3 => fr.status = l_Undef
          /\ svLast'.op = "simplify" =>
                 /\ fr.status = l_Undef
                 /\ ~sv'.ok => fr'.status = l_False
          /\ fr.status # l_Undef =>
                 /\ sv' = sv
                 /\ fr'.status = fr.status
                 /\ pc' = "stepEnd" => svLast'.op = "return"]_vars

\* A step has returned the UNSAT verdict of its cubification: neither the
\* cube search nor simplify ran after it.
StepPhaseOrderWitness ==
    /\ pc = "stepEnd"
    /\ svLast.op = "return"
    /\ fr.status = l_False
    /\ sv.exitPoint = 1

\* C21: cubifyOne is called only while propagations is below
\* p0 + k_c * (p1 - p0), with p0 the counter before the search of the step
\* and p1 the counter when the search returned.
CubifyBudgetFromSnapshot ==
    [][(pc = "cubify" /\ svLast'.op = "cubify") =>
          sv.propagations < fr.propagationsBeforeSearch + sv.k_c *
              (fr.propagationsAfterSearch - fr.propagationsBeforeSearch)]_vars

\* C21: cubifyOne is called only while propagations is below
\* p1 + k_c * (p1 - p0), the limit being counted from the end of the search;
\* a search that made no propagation (p1 = p0) is followed by no call of
\* cubifyOne, whatever k_c is.
CubifyBudgetFromSearchEnd ==
    [][(pc = "cubify" /\ svLast'.op = "cubify") =>
          /\ sv.propagations < fr.propagationsAfterSearch + sv.k_c *
                 (fr.propagationsAfterSearch - fr.propagationsBeforeSearch)
          /\ fr.propagationsAfterSearch > fr.propagationsBeforeSearch]_vars

\* cubifyOne has been called with k_c = 1 after a search that made one
\* propagation: at the call the counter stood at p1 = p0 + k_c * (p1 - p0)
\* or above.
CubifyBudgetFromSearchEndWitness ==
    /\ svLast.op = "cubify"
    /\ sv.k_c = 1
    /\ fr.propagationsAfterSearch = fr.propagationsBeforeSearch + 1

(***************************************************************************)
(* Properties of the clause database.                                      *)
(***************************************************************************)

\* C22: dropClause(i) keeps the Bimap synchronized with the clause vector:
\* afterwards the vector is one shorter, the id of the deleted clause has
\* fw = -1, every other clause keeps its id and fw of that id is the slot
\* the clause now has (slot i for the formerly last clause, its old slot
\* for any other), bw of the vacated last slot is -1; for i the last slot
\* as for i below it.
DropClauseKeepsBimap ==
    [][svLast'.op = "dropClause" =>
          LET i    == svLast'.slot
              last == Len(sv.clauses) - 1
          IN  /\ Len(sv'.clauses) = last
              /\ Bimap_bw(sv.bi, i) >= 0
              /\ Bimap_fw(sv'.bi, Bimap_bw(sv.bi, i)) = -1
              /\ Bimap_bw(sv'.bi, last) = -1
              /\ \A k \in (0 .. last) \ {i} :
                     LET id == Bimap_bw(sv.bi, k)
                         to == IF k = last THEN i ELSE k
                     IN  /\ id >= 0
                         /\ Bimap_fw(sv'.bi, id) = to
                         /\ Bimap_bw(sv'.bi, to) = id
                         /\ sv'.clauses[to + 1] = sv.clauses[k + 1]]_vars

\* A clause below the last slot has been dropped in a solver that has a
\* level-0 literal on its trail, and the last clause has moved into the
\* slot under an id that differs from the slot number.
DropClauseKeepsBimapWitness ==
    /\ svLast.op = "dropClause"
    /\ svLast.slot < Len(sv.clauses)
    /\ sv.trail # <<>>
    /\ Bimap_bw(sv.bi, svLast.slot) > svLast.slot + 1

(***************************************************************************)
(* Properties of cubify and of the cube search.                            *)
(***************************************************************************)

\* The clause at slot i of s has a literal that is true.
Satisfied(s, i) == \E L \in s.clauses[i + 1] : value(s, L) = l_True

\* C23: cubify(i) on a clause that has a literal true at level 0 returns
\* Undef and changes nothing: the solver after the call is the solver in
\* which cubifyOne made the call (cubifications counted, the id popped off
\* cubifyQueue), with the same clauses, Bimap, CubeQueue, CubeIndex,
\* cubifyQueue, literalDifficulty, trail and decision level.
CubifySkipsSatisfied ==
    [][(pc = "cubify" /\ svLast'.op = "cubify") =>
          LET n == cubifyNext(sv)
          IN  (n.i >= 0 /\ Satisfied(n.s, n.i)) =>
                  /\ sv' = [n.s EXCEPT !.cubifications = @ + 1]
                  /\ fr'.status = l_Undef
                  /\ ~svLast'.int.called]_vars

\* cubifyOne has taken a clause that a level-0 literal satisfies and has
\* left it in the database.
CubifySkipsSatisfiedWitness ==
    /\ svLast.op = "cubify"
    /\ ~svLast.int.called
    /\ \E i \in 0 .. (Len(sv.clauses) - 1) :
           /\ Satisfied(sv, i)
           /\ \A k \in 1 .. Len(sv.cubifyQueue) :
                  sv.cubifyQueue[k] # Bimap_bw(sv.bi, i)
    /\ \A i \in 0 .. (Len(sv.clauses) - 1) :
           Satisfied(sv, i) \/ Bimap_bw(sv.bi, i) \in Range(sv.cubifyQueue)

\* C24: after every cube-branch search, whatever its result, the
\* assumptions vector is empty again, and it is empty when the run returns.
AssumptionsCleared ==
    (svLast.op \in {"cubeSat", "cubeUnsat", "refute", "cubeUndef"} \/ pc = "done")
        => sv.assumptions = <<>>

\* C25: the decision level is 0 at each call of cubifyOne, at each call of
\* searchCubeBranch (where the assumptions vector is empty too), at each
\* call of refuteCube and at the call of simplify.
PhaseBoundaryLevels ==
    [][/\ (pc = "cubify" /\ svLast'.op = "cubify") => decisionLevel(sv) = 0
       /\ (pc = "cubeBranch" /\ pc' # pc) =>
              decisionLevel(sv) = 0 /\ sv.assumptions = <<>>
       /\ (pc = "cubeBranch" /\ svLast'.op = "refute") => svLast'.level = 0
       /\ (pc = "simplify" /\ svLast'.op = "simplify") =>
              decisionLevel(sv) = 0]_vars

\* refuteCube has been called at level 0 for a cube whose search had taken
\* assumptions on decision levels of their own.
PhaseBoundaryLevelsWitness ==
    /\ svLast.op = "refute"
    /\ svLast.level = 0
    /\ Len(svLast.reduced) > 1

(***************************************************************************)
(* Properties of the path planner.                                         *)
(***************************************************************************)

\* The stacks that replaying the path leaves, one after each move from move
\* k on: a literal is pushed, lit_Undef pops the literal pushed last (on an
\* empty stack the replay stops).
RECURSIVE Replay(_, _, _)
Replay(path, k, stack) ==
    IF k > Len(path) THEN <<>>
    ELSE IF path[k] = lit_Undef
    THEN IF stack = <<>> THEN <<>>
         ELSE <<SubSeq(stack, 1, Len(stack) - 1)>> \o
                  Replay(path, k + 1, SubSeq(stack, 1, Len(stack) - 1))
    ELSE <<Append(stack, path[k])>> \o Replay(path, k + 1, Append(stack, path[k]))

\* The indices i of the order C, increasing, whose subcube C \ {C[i]} is not
\* in the queue q.
RECURSIVE Unscored(_, _, _)
Unscored(q, C, i) ==
    IF i >= Len(C) THEN <<>>
    ELSE (IF CubeQueue_contains(q, Terminal(C, i)) THEN <<>> ELSE <<i>>) \o
             Unscored(q, C, i + 1)

\* The moves after which the replayed stack holds N - 1 literals, increasing.
RECURSIVE FullAt(_, _, _)
FullAt(stacks, N, k) ==
    IF k > Len(stacks) THEN <<>>
    ELSE (IF Len(stacks[k]) = N - 1 THEN <<k>> ELSE <<>>) \o FullAt(stacks, N, k + 1)

\* The path planned for the order C under the queue q visits the subcubes
\* not in q, each once and in increasing i, and returns to the prefix
\* C[0..i-1] after each.
PathCovers(q, C, path) ==
    LET N      == Len(C)
        stacks == Replay(path, 1, <<>>)
        todo   == Unscored(q, C, 0)
        full   == FullAt(stacks, N, 1)
    IN  /\ Len(stacks) = Len(path)
        /\ \A k \in 1 .. Len(stacks) :
               Cardinality(Range(stacks[k])) = Len(stacks[k])
        /\ Len(full) = Len(todo)
        /\ \A m \in 1 .. Len(todo) :
               LET i == todo[m]
                   e == full[m] + (N - 1 - i)
               IN  /\ Range(stacks[full[m]]) = Range(C) \ {C[i + 1]}
                   /\ e <= Len(path)
                   /\ \A k \in (full[m] + 1) .. e : path[k] = lit_Undef
                   /\ stacks[e] = SubSeq(C, 1, i)
                   /\ IF m < Len(todo) THEN full[m + 1] = e + (N - 1 - i)
                      ELSE e = Len(path)
        /\ \A k \in 1 .. Len(stacks) :
               CubeQueue_contains(q, CubeOf(Range(stacks[k])))
                   => Len(stacks[k]) # N - 1

\* C26: for a literal order C of two literals or more for which
\* makeCubifyPath returns true, replaying the path makes the pushed set
\* C \ {C[i]} once for every i whose subcube is not in the CubeQueue, in
\* increasing i; right after the moves for such an i the pushed sequence is
\* C[0..i-1]; no subcube in the CubeQueue is reached as a full subcube.
PlannerCoverage ==
    (svLast.op = "plan" /\ svLast.int.planned)
        => PathCovers(sv.cq, svLast.order, svLast.int.path)

\* A path has been planned for three literals of which the middle one has
\* its subcube in the CubeQueue, past a CubeIndex that is not empty.
PlannerCoverageWitness ==
    /\ svLast.op = "plan"
    /\ svLast.int.planned
    /\ Len(svLast.order) = 3
    /\ Unscored(sv.cq, svLast.order, 0) = <<0, 2>>
    /\ sv.ci # CubeIndex_new

\* The cubes the planner builds for the order C under the queue q: for each
\* i whose subcube is not in q, the prefixes C[0..j] with j < i and the cubes
\* C[0..j] \ {C[i]} with j > i, the last of which is the subcube itself.
PlannerCubes(q, C) ==
    LET N    == Len(C)
        todo == Range(Unscored(q, C, 0))
    IN  UNION {{CubeOf({C[k + 1] : k \in 0 .. j}) : j \in 0 .. (i - 1)} \cup
               {CubeOf({C[k + 1] : k \in (0 .. j) \ {i}}) : j \in (i + 1) .. (N - 1)} :
               i \in todo}

\* C27: makeCubifyPath returns false exactly when some full
\* subcube C \ {C[i]} of the root is in the CubeIndex.
PlannerFalseIffFullSubcube ==
    [][(pc = "cubify" /\ svLast'.op = "cubify" /\ svLast'.int.called) =>
          (~svLast'.int.planned <=>
              \E i \in 0 .. (Len(svLast'.order) - 1) :
                  CubeIndex_contains(sv.ci, Terminal(svLast'.order, i), 0))]_vars

\* C27: makeCubifyPath returns false exactly when the CubeIndex holds a
\* cube that the planner builds on its way to a subcube that is not in the
\* CubeQueue, the subcube itself or a shorter cube; so it does whenever a
\* full subcube that is not in the CubeQueue is in the CubeIndex.
\* cubifyInternal then returns the empty cube, the trail is untouched, and
\* cubify deletes the clause.
PlannerShortCircuit ==
    [][(pc = "cubify" /\ svLast'.op = "cubify" /\ svLast'.int.called) =>
          LET n == cubifyNext(sv)
              c == svLast'.order
          IN  /\ ~svLast'.int.planned <=>
                     \E cube \in PlannerCubes(sv.cq, c) :
                         CubeIndex_contains(sv.ci, cube, 0)
              /\ \A i \in 0 .. (Len(c) - 1) :
                     (/\ CubeIndex_contains(sv.ci, Terminal(c, i), 0)
                      /\ ~CubeQueue_contains(sv.cq, Terminal(c, i)))
                         => ~svLast'.int.planned
              /\ ~svLast'.int.planned =>
                     /\ svLast'.int.post = Cube_new
                     /\ sv'.trail = sv.trail
                     /\ sv'.trail_lim = sv.trail_lim
                     /\ sv'.qhead = sv.qhead
                     /\ sv'.propagations = sv.propagations
                     /\ sv'.clauses = dropClause(n.s, n.i).clauses
                     /\ sv'.bi = dropClause(n.s, n.i).bi
                     /\ Bimap_fw(sv'.bi, Bimap_bw(n.s.bi, n.i)) = -1
                     /\ sv'.ci = sv.ci]_vars

\* cubify has deleted a clause for which the planner returned false, a full
\* subcube of its root being in the CubeIndex.
PlannerShortCircuitWitness ==
    /\ svLast.op = "cubify"
    /\ svLast.int.called
    /\ ~svLast.int.planned
    /\ \E i \in 0 .. (Len(svLast.order) - 1) :
           CubeIndex_contains(sv.ci, Terminal(svLast.order, i), 0)

(***************************************************************************)
(* Properties of the clause replacement made by cubify.                    *)
(***************************************************************************)

\* What the cubifyOne step from sv to sv' did with the clause it took, for
\* which cubifyInternal returned a non-empty cube post; queued tells
\* whether the id of a clause that was added is asked to be on cubifyQueue.
CubifyReplaced(queued) ==
    LET n      == cubifyNext(sv)
        i      == n.i
        clause == n.s.clauses[i + 1]
        post   == svLast'.int.post
        last   == Len(n.s.clauses) - 1
    IN  IF Cube_size(post) < Cardinality(clause)
        THEN /\ Bimap_fw(sv'.bi, Bimap_bw(n.s.bi, i)) = -1
             /\ IF Cube_size(post) = 1
                THEN /\ Len(sv'.clauses) = last
                     /\ Neg(post[1]) \in Level0(sv')
                     /\ sv'.ci = sv.ci
                ELSE IF ~CubeIndex_contains(sv.ci, post, 0)
                THEN /\ Len(sv'.clauses) = last + 1
                     /\ sv'.clauses[last + 1] = {Neg(L) : L \in Range(post)}
                     /\ Bimap_bw(sv'.bi, last) = sv.bi.next_free_index
                     /\ CubeIndex_marked(sv'.ci) = CubeIndex_marked(sv.ci) \cup {post}
                     /\ queued => Bimap_bw(sv'.bi, last) \in Range(sv'.cubifyQueue)
                ELSE /\ Len(sv'.clauses) = last
                     /\ sv'.ci = sv.ci
                     /\ sv'.cubifyQueue = n.s.cubifyQueue
        ELSE /\ sv'.clauses = sv.clauses
             /\ sv'.bi = sv.bi
             /\ sv'.ci = sv.ci
             /\ sv'.trail = sv.trail
             /\ sv'.cubifyQueue = n.s.cubifyQueue

\* C28: when cubifyInternal returns a non-empty cube post with fewer
\* literals than the clause, the clause is deleted; a post of one literal
\* has its negation asserted at level 0; a longer post that is not in the
\* CubeIndex has the clause not-post added, is marked in the CubeIndex, and
\* the new clause is on cubifyQueue; a post already in the CubeIndex adds
\* nothing; a post as long as the clause leaves the database unchanged.
CubifyReplacesClause ==
    [][(pc = "cubify" /\ svLast'.op = "cubify" /\ svLast'.int.called
           /\ svLast'.int.post # Cube_new) => CubifyReplaced(TRUE)]_vars

\* The same without the requirement on cubifyQueue.
CubifyReplacesClauseUnqueued ==
    [][(pc = "cubify" /\ svLast'.op = "cubify" /\ svLast'.int.called
           /\ svLast'.int.post # Cube_new) => CubifyReplaced(FALSE)]_vars

\* C29: the cube that cubifyInternal returns for a root is the empty cube,
\* or the root, or a non-empty strict subset of the root; a returned cube
\* that is not empty is a subset of the root and is in conflict under unit
\* propagation at level 0, as cubify asserts.  (cubifyInternal leaves the
\* clauses and the level-0 trail as cubify handed them over.)
CubifyInternalResult ==
    [][(pc = "cubify" /\ svLast'.op = "cubify" /\ svLast'.int.called) =>
          LET n    == cubifyNext(sv)
              root == svLast'.int.root
              post == svLast'.int.post
          IN  /\ \/ post = Cube_new
                 \/ post = root
                 \/ /\ Range(post) \subseteq Range(root)
                    /\ Cube_size(post) < Cube_size(root)
              /\ post = Cube_new <=> ~svLast'.int.planned
              /\ post # Cube_new =>
                     /\ Range(post) \subseteq Range(root)
                     /\ isConflicted(n.s, root)
                     /\ isConflicted(n.s, post)]_vars

\* cubifyInternal has met a conflict and returned a strengthening of two
\* literals or more.
CubifyInternalResultWitness ==
    /\ svLast.op = "cubify"
    /\ svLast.int.called
    /\ Cube_size(svLast.int.post) >= 2
    /\ Cube_size(svLast.int.post) < Cube_size(svLast.int.root)

\* C30: cubifyInternal, and with it the planner, is called only for a root
\* of at most maxCubifiableSize literals.  A clause whose root is larger is
\* left untouched when the root is as long as the clause, and is pruned
\* otherwise: the clause is deleted and not-root is added unless the root is
\* in the CubeIndex.  Either way no decision level is opened and the
\* CubeQueue is as before.
CubifySizeCap ==
    [][(pc = "cubify" /\ svLast'.op = "cubify") =>
          LET n == cubifyNext(sv)
          IN  /\ svLast'.int.called =>
                     Cube_size(svLast'.int.root) <= sv.maxCubifiableSize
              /\ (n.i >= 0 /\ ~Satisfied(n.s, n.i)
                     /\ Cube_size(cubifyRoot(n.s, n.i)) > sv.maxCubifiableSize) =>
                     LET root   == cubifyRoot(n.s, n.i)
                         clause == n.s.clauses[n.i + 1]
                         last   == Len(n.s.clauses) - 1
                     IN  /\ ~svLast'.int.called
                         /\ sv'.cq = sv.cq
                         /\ sv'.trail_lim = sv.trail_lim
                         /\ sv'.trail = sv.trail
                         /\ sv'.ci = sv.ci
                         /\ IF Cube_size(root) = Cardinality(clause)
                            THEN sv' = [n.s EXCEPT !.cubifications = @ + 1]
                            ELSE /\ Bimap_fw(sv'.bi, Bimap_bw(n.s.bi, n.i)) = -1
                                 /\ IF CubeIndex_contains(sv.ci, root, 0)
                                    THEN Len(sv'.clauses) = last
                                    ELSE /\ Len(sv'.clauses) = last + 1
                                         /\ sv'.clauses[last + 1] =
                                                {Neg(L) : L \in Range(root)}]_vars

\* cubifyOne has pruned a clause: the database holds a clause added after
\* the problem was loaded that is longer than maxCubifiableSize.
CubifySizeCapWitness ==
    /\ svLast.op = "cubify"
    /\ ~svLast.int.called
    /\ Len(sv.clauses) > 0
    /\ Cardinality(sv.clauses[Len(sv.clauses)]) > sv.maxCubifiableSize
    /\ Bimap_bw(sv.bi, Len(sv.clauses) - 1) >= Cardinality(orig)
\* The positions of cubifyQueue whose id resolves to a slot.
LivePositions(s) ==
    {k \in 1 .. Len(s.cubifyQueue) : Bimap_fw(s.bi, s.cubifyQueue[k]) >= 0}

\* C31: canCubify is true exactly when some queued id has fw >= 0.  One call
\* of cubifyOne removes the topmost live id and every id above it, and is
\* one call of cubify on the slot of that id; when no queued id is live the
\* queue is left empty, the verdict is Undef and the clause vector, the
\* Bimap, the trail and the CubeIndex are unchanged.
CubifyOneTakesTopmostLive ==
    [][(svLast'.op = "cubifyOne") =>
         /\ canCubify(sv) <=> (LivePositions(sv) # {})
         /\ IF LivePositions(sv) = {}
            THEN /\ sv' = [sv EXCEPT !.cubifyQueue = <<>>]
                 /\ fr'.status = l_Undef
                 /\ ~svLast'.int.called
            ELSE \E k \in {SetMax(LivePositions(sv))} :
                 \E cut \in {[sv EXCEPT !.cubifyQueue = SubSeq(@, 1, k - 1)]} :
                 \E ub \in BOOLEAN :
                 \E r \in {cubify(cut, Bimap_fw(sv.bi, sv.cubifyQueue[k]),
                                   svLast'.order, ub)} :
                     /\ sv' = r.s
                     /\ fr'.status = r.ret
                     /\ Len(sv'.cubifyQueue) <= k
                     /\ SubSeq(sv'.cubifyQueue, 1, k - 1)
                            = SubSeq(sv.cubifyQueue, 1, k - 1)]_vars

\* cubifyOne has popped a dead id and the live id below it, and cubified the
\* clause of the live id.
CubifyOneTakesTopmostLiveWitness ==
    /\ svLast.op = "cubifyOne"
    /\ svLast.popped >= 2
    /\ svLast.slot >= 0
    /\ svLast.int.called

\* cubifyOne has run on a queue that held dead ids only.
CubifyOneAllDeadWitness ==
    /\ svLast.op = "cubifyOne"
    /\ svLast.popped >= 1
    /\ svLast.slot = -1
    /\ sv.clauses # <<>>

\* The literals of the sequence c are strictly ascending and no two of them
\* are of one variable.
AscendingDistinctVars(c) ==
    /\ \A m \in 1 .. (Len(c) - 1) : c[m] < c[m + 1]
    /\ \A m, n \in 1 .. Len(c) : m # n => c[m] \div 2 # c[n] \div 2

\* C32: sane() is total: on every cube, the empty one included, it reads
\* positions of the cube only and returns true exactly when the literals are
\* strictly ascending and no two share a variable.
SaneTotal ==
    (cuLast.op = "sane") =>
        /\ ~cuLast.outside
        /\ cuLast.ret <=> AscendingDistinctVars(cubes[cuLast.k])

\* On a cube of one literal or more sane() reads positions of the cube only
\* and returns true exactly when the literals are strictly ascending and no
\* two share a variable.
SaneOnNonEmpty ==
    (cuLast.op = "sane" /\ cubes[cuLast.k] # Cube_new) =>
        /\ ~cuLast.outside
        /\ cuLast.ret <=> AscendingDistinctVars(cubes[cuLast.k])

\* sane() has returned true on a cube of two literals.
SaneOnNonEmptyWitness ==
    /\ cuLast.op = "sane"
    /\ Len(cubes[cuLast.k]) = 2
    /\ cuLast.ret

\* The parent ids of the cube Q of the CubeQueue that resolve to a slot.
LiveParents(s, Q) ==
    {p \in Range(CubeQueue_getParentInds(s.cq, Q)) : Bimap_fw(s.bi, p) >= 0}

\* C33: for every cube Q of the CubeQueue and every parent id p of Q with
\* fw(p) >= 0, the clause at slot fw(p) holds the negation of every literal
\* of Q.
ParentSubsumption ==
    \A Q \in DOMAIN sv.cq.implicants :
        \A p \in LiveParents(sv, Q) :
            /\ Bimap_fw(sv.bi, p) < Len(sv.clauses)
            /\ \A L \in Range(Q) : Neg(L) \in sv.clauses[Bimap_fw(sv.bi, p) + 1]

\* A cube of the CubeQueue has a parent that is deleted and a parent that is
\* live in a slot other than the one its id was given for.
ParentSubsumptionWitness ==
    \E Q \in DOMAIN sv.cq.implicants :
        /\ \E p \in LiveParents(sv, Q) : Bimap_fw(sv.bi, p) # p
        /\ \E p \in Range(CubeQueue_getParentInds(sv.cq, Q)) :
               Bimap_fw(sv.bi, p) < 0

\* C34: under every budget >= 1, a push that takes the eviction branch (the
\* cube is new and size + 1 >= budget) finds at least one cube in the queue,
\* so peekWorst and pop are never called on an empty queue.
PushEvictsNonEmpty ==
    (cqLast.op = "push" /\ ~cqLast.present
        /\ cqLast.sizeBefore + 1 >= cq.budget) => cqLast.sizeBefore >= 1

\* Under every budget >= 2, a push that takes the eviction branch finds at
\* least one cube in the queue and evicts a cube that was in it.
PushEvictsNonEmptyFromTwo ==
    (cq.budget >= 2 /\ cqLast.op = "push" /\ ~cqLast.present
        /\ cqLast.sizeBefore + 1 >= cq.budget) =>
            /\ cqLast.sizeBefore >= 1
            /\ cqLast.evicted # NoCube

\* A push has taken the eviction branch under a budget of 2 or more.
PushEvictsNonEmptyFromTwoWitness ==
    /\ cq.budget >= 2
    /\ cqLast.op = "push"
    /\ cqLast.evicted # NoCube

\* The total assignments that satisfy the database of s: its clauses and
\* its level-0 assignments.
DatabaseModels(s) == ModelsOf(Range(s.clauses), Level0(s))

\* C35: a cubify call (pruneClause included) or a refuteCube call leaves the
\* satisfying assignments of the database as they were: each clause it
\* deleted is implied by the clauses and level-0 assignments that remain.
\* When the call ends with ok cleared, the database had no model before.
DeletionPreservesModels ==
    [][(svLast'.op \in {"cubify", "refute"}) =>
          IF sv'.ok THEN DatabaseModels(sv') = DatabaseModels(sv)
          ELSE DatabaseModels(sv) = {}]_vars

\* In every state of a run in which ok holds, the database has the models
\* of the original clauses.
DatabaseKeepsModels ==
    sv.ok => DatabaseModels(sv) = ModelsOf(orig, {})

\* cubify or refuteCube has deleted a clause of a satisfiable problem that
\* no level-0 assignment satisfies.
DeletionPreservesModelsWitness ==
    /\ svLast.op \in {"cubify", "refute"}
    /\ sv.ok
    /\ ModelsOf(orig, {}) # {}
    /\ \E c \in orig : c \notin Range(sv.clauses) /\ c \cap Level0(sv) = {}

\* The cubes of the CubeQueue of s.
QueuedCubes(s) == DOMAIN s.cq.implicants

\* C36: no step of the cube-search loop adds a cube to the CubeQueue, and
\* every iteration after which the loop is not left has raised the conflict
\* counter to the limit of the loop or removed one cube from the CubeQueue.
CubeSearchIterationProgress ==
    [][(pc \in {"cubeSearch", "cubeBranch"}) =>
          /\ QueuedCubes(sv') \subseteq QueuedCubes(sv)
          /\ (pc = "cubeBranch" /\ pc' = "cubeSearch") =>
                \/ sv'.conflicts >= fr.conflicts_limit
                \/ Cardinality(QueuedCubes(sv')) = Cardinality(QueuedCubes(sv)) - 1]_vars

\* C36, with the global budget: no step of the cube-search loop adds a cube
\* to the CubeQueue, and every iteration after which the loop is not left
\* has raised the conflict counter to the limit of the loop, or used up the
\* global budget, or removed one cube from the CubeQueue; in the first two
\* cases the next loop test leaves the loop.
CubeSearchIterationProgressOrBudget ==
    [][(pc \in {"cubeSearch", "cubeBranch"}) =>
          /\ QueuedCubes(sv') \subseteq QueuedCubes(sv)
          /\ (pc = "cubeBranch" /\ pc' = "cubeSearch") =>
                \/ sv'.conflicts >= fr.conflicts_limit
                \/ ~withinBudget(sv')
                \/ Cardinality(QueuedCubes(sv')) = Cardinality(QueuedCubes(sv)) - 1
          /\ (pc = "cubeSearch"
                 /\ (sv.conflicts >= fr.conflicts_limit \/ ~withinBudget(sv))) =>
                pc' = "simplify"]_vars

\* An iteration has refuted a cube and the loop goes on below the conflict
\* limit and within the global budget.
CubeSearchIterationProgressOrBudgetWitness ==
    /\ pc = "cubeSearch"
    /\ svLast.op = "refute"
    /\ sv.conflicts < fr.conflicts_limit
    /\ withinBudget(sv)
    /\ ~CubeQueue_empty(sv.cq)

\* The number of literals in the clause vector of s.
ClauseLiterals(s) ==
    SeqSum([k \in 1 .. Len(s.clauses) |-> Cardinality(s.clauses[k])])

\* C37: the cubification loop, entered with any queue and database and a
\* propagation limit that is never reached, is left: canCubify() becomes
\* false or cubifyOne returns a verdict.
CubifyPhaseTerminates ==
    (pc = "cubify") ~> (pc = "cubeGate")

\* Every iteration of the cubification loop that returns Undef makes the
\* database smaller or, leaving the database as it is, the queue shorter:
\* an id is pushed only when the clause cubified is replaced by a shorter
\* one.
CubifyLoopMeasure ==
    [][(pc = "cubify" /\ pc' = "cubify") =>
          \/ ClauseLiterals(sv') < ClauseLiterals(sv)
          \/ /\ ClauseLiterals(sv') = ClauseLiterals(sv)
             /\ Len(sv'.cubifyQueue) < Len(sv.cubifyQueue)]_vars

\* The loop has ended with canCubify() false after two iterations or more,
\* one of which pushed an id for a strengthened clause.
CubifyPhaseTerminatesWitness ==
    /\ pc = "cubeGate"
    /\ fr.status = l_Undef
    /\ fr.propagationLimit = INT_MAX
    /\ ~canCubify(sv)
    /\ sv.cubifications >= 2
    /\ sv.ci # CubeIndex_new

\* The cancel sentinels and the literals among the first k entries of path.
Sentinels(path, k) == Cardinality({m \in 1 .. k : path[m] = lit_Undef})
Pushes(path, k)    == Cardinality({m \in 1 .. k : path[m] # lit_Undef})

\* C38: the path makeCubifyPath emits has, in every prefix, no more cancel
\* sentinels than literals, and cubifyInternal, executing it, never pops its
\* stack when it is empty and never cancels below the level it started
\* from.
PathBalanced ==
    (svLast.op = "cubify" /\ svLast.int.called) =>
        /\ \A k \in 0 .. Len(svLast.int.path) :
               Sentinels(svLast.int.path, k) <= Pushes(svLast.int.path, k)
        /\ ~svLast.int.underflow
        /\ svLast.int.lowest >= svLast.int.level0

\* cubifyInternal has executed to its end a path that starts with the
\* first literal of the order, the first subcube being skipped as it is in
\* the CubeQueue, and that holds cancel sentinels.
PathBalancedWitness ==
    /\ svLast.op = "cubify" /\ svLast.int.called /\ svLast.int.planned
    /\ Len(svLast.order) >= 3
    /\ svLast.int.path # <<>>
    /\ svLast.int.path[1] = svLast.order[1]
    /\ Sentinels(svLast.int.path, Len(svLast.int.path)) >= 1
    /\ svLast.int.post = svLast.int.root

====
